---- MODULE Spec2Model ----
(***************************************************************************)
(* Model of oslo.vmware's session management and resilient API invocation *)
(* (oslo_vmware/api.py, oslo_vmware/exceptions.py, oslo_vmware/service.py),*)
(* its VMDK handles, image transfer and paged property retrieval           *)
(* (rw_handles.py, image_transfer.py, vim_util.py).                        *)
(*                                                                         *)
(*   SpecRetry : one RetryDecorator object wrapping an arbitrary function; *)
(*               the wrapped function is called several times.             *)
(*   Spec      : one VMwareAPISession and one caller of invoke_api and     *)
(*               _create_session, against a server whose sessions expire   *)
(*               and whose RPCs fail in every way request_handler allows.  *)
(*   SpecConc  : the same session object called by NumThreads green        *)
(*               threads at once, with fewer injected failures.            *)
(*   SpecLive  : Spec with fair scheduling of the green threads.           *)
(*   SpecPoll  : one wait_for_task or wait_for_lease_ready; invoke_api is  *)
(*               represented by what it gives its caller.                  *)
(*   SpecFault : the fault class registry of exceptions.py, the fault      *)
(*               translation of invoke_api and of request_handler.         *)
(*   SpecMgmt  : the session object under logout, pbm and                  *)
(*               pbm_wsdl_loc_set, interleaved with invoke_api and         *)
(*               _create_session.                                          *)
(*   SpecHandle : one VmdkWriteHandle or VmdkReadHandle being closed.      *)
(*   SpecTransfer : one _start_transfer between two handles.               *)
(*   SpecRetrieval : one WithRetrieval context over a paged result.        *)
(***************************************************************************)
EXTENDS Integers, Sequences, FiniteSets, TLC

\* ------------------------------------------------------------------ bounds
MaxRetry == 2
MaxCalls == 2
MaxInvocations == 4

\* ------------------------------------------------ exceptions.py: hierarchy
\* The class statements of exceptions.py: each class and its direct base.
Parent(cls) ==
    CASE cls = "VimException" -> "VMwareDriverException"
      [] cls = "VimSessionOverLoadException" -> "VMwareDriverException"
      [] cls = "VimConnectionException" -> "VMwareDriverException"
      [] cls = "VimAttributeException" -> "VMwareDriverException"
      [] cls = "VimFaultException" -> "VimException"
      [] cls = "VMwareDriverException" -> "Exception"
      [] cls = "Exception" -> "Exception"
      [] cls = "AttributeError" -> "Exception"
      [] cls = "ValueError" -> "Exception"
      [] cls = "TypeError" -> "Exception"
      [] OTHER -> "VimException"

\* isinstance(exc, base): base is cls or one of its (at most three) ancestors.
IsInstance(cls, base) ==
    base \in {cls, Parent(cls), Parent(Parent(cls)), Parent(Parent(Parent(cls)))}

\* `except <tuple>`: the raised class is an instance of a class of the tuple.
Catches(classes, cls) == \E b \in classes : IsInstance(cls, b)

\* What one invocation of a callable produced. cause is the `cause` attribute
\* of a raised exception: <<>> for None, <<e>> for the exception e.
Return(v) ==
    [kind |-> "return", val |-> v, cls |-> "None", fault_list |-> <<>>, cause |-> <<>>]

Raise(c, fl) ==
    [kind |-> "raise", val |-> "None", cls |-> c, fault_list |-> fl, cause |-> <<>>]

\* cls(message, cause)
RaiseFrom(c, cause) ==
    [kind |-> "raise", val |-> "None", cls |-> c, fault_list |-> <<>>,
     cause |-> <<cause>>]

NoOutcome ==
    [kind |-> "none", val |-> "None", cls |-> "None", fault_list |-> <<>>, cause |-> <<>>]

\* ------------------------------------------------- api.py: RetryDecorator
\* RetryDecorator.__init__
RetryDecorator(max_retry_count, inc_sleep_time, max_sleep_time, excs) ==
    [max_retry_count |-> max_retry_count,
     inc_sleep_time |-> inc_sleep_time,
     max_sleep_time |-> max_sleep_time,
     exceptions |-> excs,
     retry_count |-> 0,
     sleep_time |-> 0]

\* Mutant of RetryFunc: the retry bound is tested with > instead of >=.
RetryFuncOffByOne(self, out) ==
    IF out.kind = "raise" /\ Catches(self.exceptions, out.cls)
    THEN IF self.max_retry_count # -1 /\ self.retry_count > self.max_retry_count
         THEN [self |-> self, how |-> "raise", idle |-> 0]
         ELSE [self |-> [self EXCEPT !.retry_count = @ + 1,
                                     !.sleep_time = @ + self.inc_sleep_time],
               how |-> "idle",
               idle |-> self.sleep_time + self.inc_sleep_time]
    ELSE IF out.kind = "raise"
         THEN [self |-> self, how |-> "raise", idle |-> 0]
         ELSE [self |-> self, how |-> "LoopingCallDone", idle |-> 0]

\* Mutant of RetryFunc: every exception is treated as a suggested exception.
RetryFuncCatchAll(self, out) ==
    IF out.kind = "raise"
    THEN IF self.max_retry_count # -1 /\ self.retry_count >= self.max_retry_count
         THEN [self |-> self, how |-> "raise", idle |-> 0]
         ELSE [self |-> [self EXCEPT !.retry_count = @ + 1,
                                     !.sleep_time = @ + self.inc_sleep_time],
               how |-> "idle",
               idle |-> self.sleep_time + self.inc_sleep_time]
    ELSE [self |-> self, how |-> "LoopingCallDone", idle |-> 0]

\* Mutant of RetryFunc: the sleep time is returned before it is incremented.
RetryFuncSleepThenIncrement(self, out) ==
    IF out.kind = "raise" /\ Catches(self.exceptions, out.cls)
    THEN IF self.max_retry_count # -1 /\ self.retry_count >= self.max_retry_count
         THEN [self |-> self, how |-> "raise", idle |-> 0]
         ELSE [self |-> [self EXCEPT !.retry_count = @ + 1,
                                     !.sleep_time = @ + self.inc_sleep_time],
               how |-> "idle",
               idle |-> self.sleep_time]
    ELSE IF out.kind = "raise"
         THEN [self |-> self, how |-> "raise", idle |-> 0]
         ELSE [self |-> self, how |-> "LoopingCallDone", idle |-> 0]

\* RetryDecorator.__call__._func applied to the outcome `out` of f(*args):
\* the decorator object afterwards, and how _func ends ("idle": it returns the
\* sleep time; "raise": the exception of f leaves _func; "LoopingCallDone").
RetryFunc(self, out) ==
    IF out.kind = "raise" /\ Catches(self.exceptions, out.cls)
    THEN IF self.max_retry_count # -1 /\ self.retry_count >= self.max_retry_count
         THEN [self |-> self, how |-> "raise", idle |-> 0]
         ELSE [self |-> [self EXCEPT !.retry_count = @ + 1,
                                     !.sleep_time = @ + self.inc_sleep_time],
               how |-> "idle",
               idle |-> self.sleep_time + self.inc_sleep_time]
    ELSE IF out.kind = "raise"
         THEN [self |-> self, how |-> "raise", idle |-> 0]
         ELSE [self |-> self, how |-> "LoopingCallDone", idle |-> 0]

\* DynamicLoopingCall.start(periodic_interval_max): the time slept after a
\* call of the looped function returned `idle`.
LoopSleep(idle, periodic_interval_max) ==
    IF idle < periodic_interval_max THEN idle ELSE periodic_interval_max

\* ------------------------------------------------ SpecRetry: its variables
VARIABLES
    retry,     \* the RetryDecorator object
    rstate,       \* "idle" | "run" | "sleep" | "returned" | "raised"
    rcalls,    \* calls of the wrapped function made so far
    rhist,     \* outcomes of f in the current call, in order
    rresult,   \* what the current call gave its caller
    rslept     \* the sleeps of the current call, in order

rvars == <<retry, rstate, rcalls, rhist, rresult, rslept>>

\* ---------------------------------------------------- Spec: its variables
VARIABLES
    api_retry_count,   \* VMwareAPISession._api_retry_count
    session_id,        \* VMwareAPISession._session_id; 0 is None
    session_username,  \* VMwareAPISession._session_username; 0 is None
    srv,               \* the session keys the server holds as active
    keys,              \* session keys the server has issued so far
    lock,              \* holder of 'oslo_vmware_api_lock'; 0 when free
    csretry,           \* the RetryDecorator object decorating _create_session
    pc,                \* where each green thread stands
    op,                \* the operation each green thread is in
    cont,              \* who called _create_session: "direct" | "na" | "conn"
    iaretry,           \* the RetryDecorator object of the current invoke_api
    saved,             \* the exception an except clause of _invoke_api holds
    result,            \* what the last operation gave its caller
    trace,             \* events of the current operation, in order
    faults,            \* failures injected so far
    ops,               \* operations started so far
    scenario           \* "single": one caller; "concurrent": every thread calls
                       \* once; "mgmt": every thread calls, logout and PBM too

svars == <<api_retry_count, session_id, session_username, srv, keys, lock,
           csretry, pc, op, cont, iaretry, saved, result, trace, faults, ops,
           scenario>>

\* ------------------------------------------------ SpecPoll: its variables
VARIABLES
    pkind,     \* "task" | "lease": which wait is in progress; "none" before
    pstate,    \* "idle" | "poll" | "error_read" | "sleep" | "returned" | "raised"
    phist,     \* the invoke_api calls of the wait so far: property read, outcome
    perror,    \* the `error` attribute of the task's info
    presult    \* what the wait gave its caller

pvars == <<pkind, pstate, phist, perror, presult>>

\* ----------------------------------------------- SpecFault: its variables
VARIABLES
    registry,  \* exceptions._fault_classes_registry: fault name -> class
    fcall      \* the last call made on the fault taxonomy and what it gave

fvars == <<registry, fcall>>

\* ------------------------------------------------ SpecMgmt: its variables
VARIABLES
    pbm,           \* VMwareAPISession._pbm: <<>> is None, <<c>> a client whose
                   \* SOAP cookie is c (0: none set)
    pbm_wsdl_loc,  \* VMwareAPISession._pbm_wsdl_loc
    vim_cookie     \* the HTTP session cookie of the VIM client; 0: none

mvars == <<pbm, pbm_wsdl_loc, vim_cookie>>

\* rw_handles.py: the VMDK handle being closed. image_transfer.py: the
\* transfer in progress. vim_util.py: the WithRetrieval context in use.
VARIABLES
    handle,
    transfer,
    retrieval

xvars == <<handle, transfer, retrieval>>

\* No handle, transfer or retrieval is in use.
NoHandle == [pc |-> "none"]

NoTransfer == [pc |-> "none"]

NoRetrieval == [pc |-> "none"]

\* The exception tuples the repository passes to RetryDecorator.
ExceptionTuples ==
    { {},
      {"VimConnectionException"},
      {"VimSessionOverLoadException"},
      {"VimSessionOverLoadException", "VimConnectionException"} }

\* What the wrapped function may do on one invocation.
FuncOutcomes ==
    { Return("RESULT"),
      Raise("VimSessionOverLoadException", <<>>),
      Raise("VimConnectionException", <<>>),
      Raise("VimException", <<>>) }

\* func(*args): a call of the wrapped function starts a DynamicLoopingCall.
RetryCall ==
    /\ rstate \in {"idle", "returned", "raised"}
    /\ rcalls < MaxCalls
    /\ rstate' = "run"
    /\ rcalls' = rcalls + 1
    /\ rhist' = <<>>
    /\ rresult' = NoOutcome
    /\ rslept' = <<>>
    /\ UNCHANGED <<xvars, retry, svars, pvars, fvars, mvars>>

\* One pass of the loop: _func invokes f and handles what f did.
RetryInvoke ==
    /\ rstate = "run"
    /\ \E out \in FuncOutcomes :
         /\ out.kind = "raise" => Len(rhist) < MaxInvocations
         /\ LET r == RetryFunc(retry, out) IN
              /\ retry' = r.self
              /\ rhist' = Append(rhist, out)
              /\ CASE r.how = "LoopingCallDone" ->
                        /\ rstate' = "returned"
                        /\ rresult' = out
                        /\ rslept' = rslept
                   [] r.how = "raise" ->
                        /\ rstate' = "raised"
                        /\ rresult' = out
                        /\ rslept' = rslept
                   [] r.how = "idle" ->
                        /\ rstate' = "sleep"
                        /\ rresult' = rresult
                        /\ rslept' = Append(rslept,
                                            LoopSleep(r.idle, retry.max_sleep_time))
    /\ UNCHANGED <<xvars, rcalls, svars, pvars, fvars, mvars>>

\* greenthread.sleep(idle) is over: the loop calls _func again.
RetryWake ==
    /\ rstate = "sleep"
    /\ rstate' = "run"
    /\ UNCHANGED <<xvars, retry, rcalls, rhist, rresult, rslept, svars, pvars, fvars, mvars>>


\* ------------------------------------------- exceptions.py: fault registry
NOT_AUTHENTICATED == "NotAuthenticated"

\* _fault_classes_registry as the module is loaded
FaultClassesRegistry ==
    [name \in {"AlreadyExists", "CannotDeleteFile", "DuplicateName",
               "FileAlreadyExists", "FileFault", "FileLocked", "FileNotFound",
               "InvalidPowerState", "InvalidProperty", "ManagedObjectNotFound",
               "NoDiskSpace", "NoPermission", "NotAuthenticated",
               "TaskInProgress", "ToolsUnavailable"} |->
        CASE name = "AlreadyExists" -> "AlreadyExistsException"
          [] name = "CannotDeleteFile" -> "CannotDeleteFileException"
          [] name = "DuplicateName" -> "DuplicateName"
          [] name = "FileAlreadyExists" -> "FileAlreadyExistsException"
          [] name = "FileFault" -> "FileFaultException"
          [] name = "FileLocked" -> "FileLockedException"
          [] name = "FileNotFound" -> "FileNotFoundException"
          [] name = "InvalidPowerState" -> "InvalidPowerStateException"
          [] name = "InvalidProperty" -> "InvalidPropertyException"
          [] name = "ManagedObjectNotFound" -> "ManagedObjectNotFoundException"
          [] name = "NoDiskSpace" -> "NoDiskSpaceException"
          [] name = "NoPermission" -> "NoPermissionException"
          [] name = "NotAuthenticated" -> "NotAuthenticatedException"
          [] name = "TaskInProgress" -> "TaskInProgress"
          [] name = "ToolsUnavailable" -> "ToolsUnavailableException"]

\* Mutant of get_fault_class: a name that is not registered gives the generic
\* fault class.
GetFaultClassWithFallback(name) ==
    IF name \in DOMAIN registry
    THEN registry[name]
    ELSE "VimFaultException"

\* get_fault_class(name): the registered class, or None.
get_fault_class(name) ==
    IF name \in DOMAIN registry
    THEN registry[name]
    ELSE "None"

Contains(seq, x) == \E i \in 1..Len(seq) : seq[i] = x

\* _fault_classes_registry of the deprecated namespace package oslo.vmware
LegacyFaultClassesRegistry ==
    [name \in {"AlreadyExists", "CannotDeleteFile", "FileAlreadyExists",
               "FileFault", "FileLocked", "FileNotFound", "InvalidPowerState",
               "InvalidProperty", "NoPermission", "NotAuthenticated"} |->
        FaultClassesRegistry[name]]

\* get_fault_class(name) of the deprecated namespace package oslo.vmware
legacy_get_fault_class(name) ==
    IF name \in DOMAIN LegacyFaultClassesRegistry
    THEN LegacyFaultClassesRegistry[name]
    ELSE "VMwareDriverException"

\* An exception object with the attributes the fault handling reads. message
\* is the text as a sequence of pieces, cause is <<>> for None or the text of
\* the cause, details is <<>> for None or the keys and values of the mapping.
Exc(cls, message, cause, fault_list, details) ==
    [cls |-> cls, message |-> message, cause |-> cause,
     fault_list |-> fault_list, details |-> details]

NoExc == Exc("None", <<>>, <<>>, <<>>, <<>>)

\* VMwareDriverException.description and its override in VimFaultException:
\* what str(exc) gives.
description(exc) ==
    exc.message
        \o (IF exc.cause # <<>> THEN <<"Cause:">> \o exc.cause ELSE <<>>)
        \o (IF IsInstance(exc.cls, "VimFaultException") /\ exc.fault_list # <<>>
            THEN <<"Faults:">> \o exc.fault_list ELSE <<>>)
        \o (IF IsInstance(exc.cls, "VimFaultException") /\ exc.details # <<>>
            THEN <<"Details:">> \o exc.details ELSE <<>>)

\* A call on the fault taxonomy: the operation, its arguments (a fault name, a
\* class, the fault types of a SOAP fault, an exception), what it returned or
\* raised, and the registry it found.
FaultCall(o, name, cls, types, exc, ret, raised) ==
    [op |-> o, name |-> name, cls |-> cls, types |-> types, exc |-> exc,
     ret |-> ret, raised |-> raised, before |-> registry]

NoCall ==
    [op |-> "none", name |-> "None", cls |-> "None", types |-> <<>>,
     exc |-> NoExc, ret |-> "None", raised |-> NoExc,
     before |-> FaultClassesRegistry]

RetryNext == RetryCall \/ RetryInvoke \/ RetryWake

\* ------------------------------------------------------------ Spec: bounds
NumThreads == 2
MaxOps == 2
MaxFaults == 2
MaxConcFaults == 1
MaxMgmtOps == 2

Threads == 1..NumThreads

\* The threads that call the session object, the operations they start in all
\* and the failures injected in all, by scenario.
CallingThreads == IF scenario = "single" THEN {1} ELSE Threads

\* The threads that call invoke_api: with logout and the PBM client in play,
\* one thread calls the API while every thread manages the session object.
ApiCallers == IF scenario = "mgmt" THEN {1} ELSE CallingThreads

OpBudget ==
    CASE scenario = "single" -> MaxOps
      [] scenario = "mgmt" -> MaxMgmtOps
      [] OTHER -> NumThreads

FaultBudget == IF scenario = "single" THEN MaxFaults ELSE MaxConcFaults

\* The single caller calls again after a call has ended; a concurrent caller
\* calls once.
CallablePcs == IF scenario = "concurrent" THEN {"idle"} ELSE {"idle", "done"}

\* One entry of a thread's trace: what happened, its outcome, and the session
\* key involved (the sessionID argument of SessionIsActive, the key a Login
\* returned), 0 when there is none.
Event(ev, out, sid) == [ev |-> ev, out |-> out, sid |-> sid, userName |-> 0]

\* The entry for a SessionIsActive or Login RPC, with the userName argument of
\* the one and the userName of the session object returned by the other.
RpcEvent(ev, out, sid, userName) ==
    [ev |-> ev, out |-> out, sid |-> sid, userName |-> userName]

\* session.userName of the session object Login returns with the key `key`:
\* the name as the server holds it for that session, 0 when there is no
\* session. The name handed to Login is not among these values.
SessionUserName(key) == key

\* ------------------------------------------------ service.py: RPC outcomes
\* What request_handler can raise (service.py, the except clauses), by class.
RpcFailures ==
    { Raise("VimFaultException", <<"InvalidLogin">>),
      Raise("VimConnectionException", <<>>),
      Raise("VimSessionOverLoadException", <<>>),
      Raise("VimAttributeException", <<>>),
      Raise("VimException", <<>>) }

\* The SessionIsActive RPC for the id the session object holds.
SessionIsActiveOutcomes ==
    { Return(IF session_id \in srv THEN "True" ELSE "False") }
        \cup (IF faults < FaultBudget THEN RpcFailures ELSE {})

\* The Login RPC; a success issues the key keys + 1.
LoginOutcomes ==
    { Return("session") } \cup (IF faults < FaultBudget THEN RpcFailures ELSE {})

\* What the API method handed to invoke_api may do on one invocation.
TargetOutcomes ==
    { Return("RESULT") }
        \cup (IF faults < FaultBudget
              THEN { Raise("VimFaultException", <<NOT_AUTHENTICATED>>),
                     Raise("VimFaultException", <<"FileNotFound">>),
                     Raise("VimFaultException", <<"NotAFile">>),
                     Raise("VimFaultException", <<>>),
                     Raise("VimConnectionException", <<>>),
                     Raise("VimSessionOverLoadException", <<>>),
                     Raise("VimException", <<>>) }
              ELSE {})

Failed(out) == IF out.kind = "raise" THEN 1 ELSE 0

\* ------------------------------------------------ api.py: VMwareAPISession
\* is_current_session_active, given what the SessionIsActive RPC did.
is_current_session_active(rpc) ==
    IF rpc.kind = "raise"
    THEN IF IsInstance(rpc.cls, "VimException") THEN Return("False") ELSE rpc
    ELSE rpc

\* Mutant of SessionFault: only the first fault name is looked at.
SessionFaultFirstOnly(excep) ==
    excep.fault_list # <<>> /\ excep.fault_list[1] = NOT_AUTHENTICATED

\* Mutant of SessionFault: every VimFaultException is taken for a session fault.
SessionFaultAny(excep) == TRUE

\* invoke_api, line 305: the fault is due to an inactive session or to an
\* empty response.
SessionFault(excep) == Contains(excep.fault_list, NOT_AUTHENTICATED)

\* invoke_api, the branch for a VimFaultException without NotAuthenticated:
\* the exception that leaves _invoke_api.
SpecificFault(excep) ==
    IF excep.fault_list # <<>> /\ get_fault_class(excep.fault_list[1]) # "None"
    THEN Raise(get_fault_class(excep.fault_list[1]), <<>>)
    ELSE excep

\* Mutant of AfterLiveness: the liveness answer is ignored and the session is
\* always re-created.
AfterLivenessAlwaysRefresh(branch, active, excep) ==
    IF active.kind = "raise"
    THEN [next |-> "end", out |-> active]
    ELSE [next |-> "refresh", out |-> NoOutcome]

\* Mutant of AfterLiveness: on an inactive session the connection error is
\* raised without re-creating the session first.
AfterLivenessNoRefresh(branch, active, excep) ==
    IF active.kind = "raise"
    THEN [next |-> "end", out |-> active]
    ELSE IF active = Return("True")
    THEN [next |-> "end", out |-> IF branch = "na" THEN Return("[]") ELSE excep]
    ELSE [next |-> "end", out |-> Raise("VimConnectionException", <<>>)]

\* Mutant of AfterLiveness: after a VimConnectionException the session is
\* re-created when it is active and left alone when it is not.
AfterLivenessConnInverted(branch, active, excep) ==
    IF active.kind = "raise"
    THEN [next |-> "end", out |-> active]
    ELSE IF branch = "na"
    THEN IF active = Return("True")
         THEN [next |-> "end", out |-> Return("[]")]
         ELSE [next |-> "refresh", out |-> NoOutcome]
    ELSE IF active = Return("True")
         THEN [next |-> "refresh", out |-> NoOutcome]
         ELSE [next |-> "end", out |-> excep]

\* _invoke_api after is_current_session_active() gave `active`, in the except
\* clause for NotAuthenticated (branch "na", lines 313-331) or for
\* VimConnectionException (branch "conn", lines 350-356): the attempt ends with
\* `out`, or _create_session is called. excep is the exception being handled.
AfterLiveness(branch, active, excep) ==
    IF active.kind = "raise"
    THEN [next |-> "end", out |-> active]
    ELSE IF active = Return("True")
    THEN [next |-> "end", out |-> IF branch = "na" THEN Return("[]") ELSE excep]
    ELSE [next |-> "refresh", out |-> NoOutcome]

\* The RetryDecorator invoke_api builds for each call.
InvokeApiDecorator ==
    RetryDecorator(api_retry_count, 10, 60,
                   {"VimSessionOverLoadException", "VimConnectionException"})

\* Mutant of CreateSessionDecorator: VimException is retried as well.
CreateSessionDecoratorVimException ==
    RetryDecorator(-1, 10, 60, {"VimConnectionException", "VimException"})

\* Mutant of CreateSessionDecorator: the retries are bounded by one.
CreateSessionDecoratorBounded == RetryDecorator(1, 10, 60, {"VimConnectionException"})

\* The RetryDecorator built once, when the class body decorates _create_session.
CreateSessionDecorator == RetryDecorator(-1, 10, 60, {"VimConnectionException"})

\* _func of invoke_api's decorator, given what _invoke_api did (out); tr is
\* the thread's trace so far. A "sleep" event records the exception retried.
IaEnd(t, out, tr) ==
    LET r == RetryFunc(iaretry[t], out) IN
      /\ iaretry' = [iaretry EXCEPT ![t] = r.self]
      /\ IF r.how = "idle"
         THEN /\ pc' = [pc EXCEPT ![t] = "ia_sleep"]
              /\ result' = result
              /\ trace' = [trace EXCEPT ![t] = Append(tr, Event("sleep", out, 0))]
         ELSE /\ pc' = [pc EXCEPT ![t] = "done"]
              /\ result' = [result EXCEPT ![t] = out]
              /\ trace' = [trace EXCEPT ![t] = tr]

\* Mutant of AfterRefresh: after the refresh the NotAuthenticated fault itself
\* is raised again instead of a VimConnectionException.
AfterRefreshReraise(t, out) ==
    IF out.kind = "raise" THEN out ELSE saved[t]

\* Mutant of AfterRefresh: the VimConnectionException raised after the refresh
\* does not carry the fault that caused it.
AfterRefreshNoCause(t, out) ==
    IF out.kind = "raise" THEN out
    ELSE IF cont[t] = "na" THEN Raise("VimConnectionException", <<>>)
    ELSE saved[t]

\* Mutant of AfterRefresh: an exception of _create_session is dropped and the
\* attempt ends as after a successful refresh.
AfterRefreshDropsError(t, out) ==
    IF cont[t] = "na" THEN RaiseFrom("VimConnectionException", saved[t])
    ELSE saved[t]

\* invoke_api, after the _create_session it called has ended with `out`:
\* line 330 raises VimConnectionException, line 346 re-raises the saved one,
\* and an exception of _create_session replaces either.
AfterRefresh(t, out) ==
    IF out.kind = "raise" THEN out
    ELSE IF cont[t] = "na" THEN RaiseFrom("VimConnectionException", saved[t])
    ELSE saved[t]

\* _func of _create_session's decorator, given what the locked body did.
CsEnd(t, out, tr) ==
    LET r == RetryFunc(csretry, out) IN
      /\ csretry' = r.self
      /\ IF r.how = "idle"
         THEN /\ pc' = [pc EXCEPT ![t] = "cs_sleep"]
              /\ trace' = [trace EXCEPT ![t] = Append(tr, Event("cs_sleep", NoOutcome, 0))]
              /\ UNCHANGED <<result, iaretry>>
         ELSE IF cont[t] = "direct"
         THEN /\ pc' = [pc EXCEPT ![t] = "done"]
              /\ result' = [result EXCEPT ![t] = out]
              /\ trace' = [trace EXCEPT ![t] = Append(tr, Event("create_end", out, 0))]
              /\ UNCHANGED iaretry
         ELSE IaEnd(t, AfterRefresh(t, out), Append(tr, Event("create_end", out, 0)))

\* A caller starts invoke_api(module, method).
InvokeApi(t) ==
    /\ t \in ApiCallers
    /\ pc[t] \in CallablePcs
    /\ ops < OpBudget
    /\ ops' = ops + 1
    /\ pc' = [pc EXCEPT ![t] = "ia_call"]
    /\ op' = [op EXCEPT ![t] = "invoke_api"]
    /\ iaretry' = [iaretry EXCEPT ![t] = InvokeApiDecorator]
    /\ saved' = [saved EXCEPT ![t] = NoOutcome]
    /\ result' = [result EXCEPT ![t] = NoOutcome]
    /\ trace' = [trace EXCEPT ![t] = <<>>]
    /\ UNCHANGED <<xvars, rvars, pvars, fvars, mvars, scenario, api_retry_count, session_id, session_username, srv, keys,
                   lock, csretry, cont, faults>>

\* A caller starts _create_session().
CreateSession(t) ==
    /\ t \in CallingThreads
    /\ pc[t] \in CallablePcs
    /\ ops < OpBudget
    /\ ops' = ops + 1
    /\ pc' = [pc EXCEPT ![t] = "cs_lock"]
    /\ op' = [op EXCEPT ![t] = "_create_session"]
    /\ cont' = [cont EXCEPT ![t] = "direct"]
    /\ saved' = [saved EXCEPT ![t] = NoOutcome]
    /\ result' = [result EXCEPT ![t] = NoOutcome]
    /\ trace' = [trace EXCEPT ![t] = <<Event("create_begin", NoOutcome, 0)>>]
    /\ UNCHANGED <<xvars, rvars, pvars, fvars, mvars, scenario, api_retry_count, session_id, session_username, srv, keys,
                   lock, csretry, iaretry, faults>>

\* _invoke_api: api_method(*args, **kwargs) and the except clause it enters.
InvokeTarget(t) ==
    /\ pc[t] = "ia_call"
    /\ \E out \in TargetOutcomes :
         LET tr == Append(trace[t], Event("call", out, 0)) IN
           /\ faults' = faults + Failed(out)
           /\ IF out.kind = "raise" /\ IsInstance(out.cls, "VimFaultException")
              THEN IF SessionFault(out)
                   THEN /\ pc' = [pc EXCEPT ![t] = "ia_na_live"]
                        /\ saved' = [saved EXCEPT ![t] = out]
                        /\ trace' = [trace EXCEPT ![t] = tr]
                        /\ UNCHANGED <<iaretry, result>>
                   ELSE /\ IaEnd(t, SpecificFault(out), tr)
                        /\ UNCHANGED saved
              ELSE IF out.kind = "raise" /\ IsInstance(out.cls, "VimConnectionException")
              THEN /\ pc' = [pc EXCEPT ![t] = "ia_conn_live"]
                   /\ saved' = [saved EXCEPT ![t] = out]
                   /\ trace' = [trace EXCEPT ![t] = tr]
                   /\ UNCHANGED <<iaretry, result>>
              ELSE /\ IaEnd(t, out, tr)
                   /\ UNCHANGED saved
    /\ UNCHANGED <<xvars, rvars, pvars, fvars, mvars, scenario, api_retry_count, session_id, session_username, srv, keys,
                   lock, csretry, op, cont, ops>>

\* _invoke_api, lines 313-331: the liveness check after NotAuthenticated.
NotAuthenticatedCheck(t) ==
    /\ pc[t] = "ia_na_live"
    /\ \E rpc \in SessionIsActiveOutcomes :
         LET active == is_current_session_active(rpc)
             tr == trace[t] \o <<RpcEvent("SessionIsActive", rpc, session_id, session_username),
                                 Event("is_active", active, session_id)>> IN
           /\ faults' = faults + Failed(rpc)
           /\ IF AfterLiveness("na", active, saved[t]).next = "refresh"
              THEN /\ pc' = [pc EXCEPT ![t] = "cs_lock"]
                   /\ cont' = [cont EXCEPT ![t] = "na"]
                   /\ trace' = [trace EXCEPT ![t] =
                                   Append(tr, Event("create_begin", NoOutcome, 0))]
                   /\ UNCHANGED <<iaretry, result>>
              ELSE /\ IaEnd(t, AfterLiveness("na", active, saved[t]).out, tr)
                   /\ UNCHANGED cont
    /\ UNCHANGED <<xvars, rvars, pvars, fvars, mvars, scenario, api_retry_count, session_id, session_username, srv, keys,
                   lock, csretry, op, saved, ops>>

\* _invoke_api, lines 345-356: the liveness check after VimConnectionException.
ConnectionCheck(t) ==
    /\ pc[t] = "ia_conn_live"
    /\ \E rpc \in SessionIsActiveOutcomes :
         LET active == is_current_session_active(rpc)
             tr == trace[t] \o <<RpcEvent("SessionIsActive", rpc, session_id, session_username),
                                 Event("is_active", active, session_id)>> IN
           /\ faults' = faults + Failed(rpc)
           /\ IF AfterLiveness("conn", active, saved[t]).next = "refresh"
              THEN /\ pc' = [pc EXCEPT ![t] = "cs_lock"]
                   /\ cont' = [cont EXCEPT ![t] = "conn"]
                   /\ trace' = [trace EXCEPT ![t] =
                                   Append(tr, Event("create_begin", NoOutcome, 0))]
                   /\ UNCHANGED <<iaretry, result>>
              ELSE /\ IaEnd(t, AfterLiveness("conn", active, saved[t]).out, tr)
                   /\ UNCHANGED cont
    /\ UNCHANGED <<xvars, rvars, pvars, fvars, mvars, scenario, api_retry_count, session_id, session_username, srv, keys,
                   lock, csretry, op, saved, ops>>

\* The sleep between two attempts of invoke_api is over.
InvokeApiWake(t) ==
    /\ pc[t] = "ia_sleep"
    /\ pc' = [pc EXCEPT ![t] = "ia_call"]
    /\ UNCHANGED <<xvars, rvars, pvars, fvars, mvars, scenario, api_retry_count, session_id, session_username, srv, keys,
                   lock, csretry, op, cont, iaretry, saved, result, trace,
                   faults, ops>>

\* Mutant of set_soap_cookie: a login leaves the cookie of the PBM client alone.
SetSoapCookieSkipped(client, cookie) == client

\* _create_session, lines 258-260, and the pbm property, line 226:
\* `self._pbm.set_soap_cookie(cookie)` when a PBM client exists.
set_soap_cookie(client, cookie) ==
    IF client # <<>> THEN <<cookie>> ELSE client

\* Mutant of AcquireLock: the body is entered without mutual exclusion.
AcquireLockNoExclusion(t) ==
    /\ pc[t] = "cs_lock"
    /\ lock' = t
    /\ pc' = [pc EXCEPT ![t] = IF session_id # 0 THEN "cs_live" ELSE "cs_login"]
    /\ trace' = [trace EXCEPT ![t] = Append(@, Event("locked", NoOutcome, 0))]
    /\ UNCHANGED <<xvars, rvars, pvars, fvars, mvars, scenario, api_retry_count, session_id, session_username, srv, keys,
                   csretry, op, cont, iaretry, saved, result, faults, ops>>

\* _create_session: lockutils.synchronized acquires the lock, then line 235
\* tests self._session_id.
AcquireLock(t) ==
    /\ pc[t] = "cs_lock"
    /\ lock = 0
    /\ lock' = t
    /\ pc' = [pc EXCEPT ![t] = IF session_id # 0 THEN "cs_live" ELSE "cs_login"]
    /\ trace' = [trace EXCEPT ![t] = Append(@, Event("locked", NoOutcome, 0))]
    /\ UNCHANGED <<xvars, rvars, pvars, fvars, mvars, scenario, api_retry_count, session_id, session_username, srv, keys,
                   csretry, op, cont, iaretry, saved, result, faults, ops>>

\* Mutant of CheckUnderLock: the lock is released once the session is found
\* inactive, before Login.
CheckUnderLockReleasesEarly(t) ==
    /\ pc[t] = "cs_live"
    /\ \E rpc \in SessionIsActiveOutcomes :
         LET active == is_current_session_active(rpc)
             tr == trace[t] \o <<RpcEvent("SessionIsActive", rpc, session_id, session_username),
                                 Event("is_active", active, session_id)>> IN
           /\ faults' = faults + Failed(rpc)
           /\ lock' = 0
           /\ IF active = Return("False")
              THEN /\ pc' = [pc EXCEPT ![t] = "cs_login"]
                   /\ trace' = [trace EXCEPT ![t] = tr]
                   /\ UNCHANGED <<csretry, iaretry, result>>
              ELSE CsEnd(t, IF active.kind = "raise" THEN active ELSE Return("None"), tr)
    /\ UNCHANGED <<xvars, rvars, pvars, fvars, mvars, scenario, api_retry_count, session_id, session_username, srv, keys,
                   op, cont, saved, ops>>

\* Mutant of CheckUnderLock: a session found active is replaced all the same.
CheckUnderLockLoginRegardless(t) ==
    /\ pc[t] = "cs_live"
    /\ \E rpc \in SessionIsActiveOutcomes :
         LET active == is_current_session_active(rpc)
             tr == trace[t] \o <<RpcEvent("SessionIsActive", rpc, session_id, session_username),
                                 Event("is_active", active, session_id)>> IN
           /\ faults' = faults + Failed(rpc)
           /\ IF active.kind = "return"
              THEN /\ pc' = [pc EXCEPT ![t] = "cs_login"]
                   /\ trace' = [trace EXCEPT ![t] = tr]
                   /\ UNCHANGED <<lock, csretry, iaretry, result>>
              ELSE /\ lock' = 0
                   /\ CsEnd(t, active, tr)
    /\ UNCHANGED <<xvars, rvars, pvars, fvars, mvars, scenario, api_retry_count, session_id, session_username, srv, keys,
                   op, cont, saved, ops>>

\* _create_session, line 235: is_current_session_active() under the lock.
CheckUnderLock(t) ==
    /\ pc[t] = "cs_live"
    /\ \E rpc \in SessionIsActiveOutcomes :
         LET active == is_current_session_active(rpc)
             tr == trace[t] \o <<RpcEvent("SessionIsActive", rpc, session_id, session_username),
                                 Event("is_active", active, session_id)>> IN
           /\ faults' = faults + Failed(rpc)
           /\ IF active = Return("False")
              THEN /\ pc' = [pc EXCEPT ![t] = "cs_login"]
                   /\ trace' = [trace EXCEPT ![t] = tr]
                   /\ UNCHANGED <<lock, csretry, iaretry, result>>
              ELSE /\ lock' = 0
                   /\ CsEnd(t, IF active.kind = "raise" THEN active ELSE Return("None"), tr)
    /\ UNCHANGED <<xvars, rvars, pvars, fvars, mvars, scenario, api_retry_count, session_id, session_username, srv, keys,
                   op, cont, saved, ops>>

\* Mutant of Login: the lock is kept while _create_session sleeps for a retry.
LoginKeepsLockToRetry(t) ==
    /\ pc[t] = "cs_login"
    /\ \E rpc \in LoginOutcomes :
         LET tr == Append(trace[t], RpcEvent("Login", rpc, IF rpc.kind = "return" THEN keys + 1 ELSE 0,
                                      IF rpc.kind = "return" THEN SessionUserName(keys + 1) ELSE 0)) IN
           /\ faults' = faults + Failed(rpc)
           /\ lock' = IF rpc.kind = "raise" /\ rpc.cls = "VimConnectionException"
                      THEN t ELSE 0
           /\ IF rpc.kind = "return"
              THEN /\ keys' = keys + 1
                   /\ srv' = srv \cup {keys + 1}
                   /\ session_id' = keys + 1
                   /\ session_username' = SessionUserName(keys + 1)
                   /\ vim_cookie' = keys + 1
                   /\ pbm' = set_soap_cookie(pbm, keys + 1)
                   /\ CsEnd(t, Return("None"), tr)
              ELSE /\ UNCHANGED <<keys, srv, session_id, session_username, vim_cookie, pbm>>
                   /\ CsEnd(t, rpc, tr)
    /\ UNCHANGED <<xvars, rvars, pvars, fvars, pbm_wsdl_loc, scenario, api_retry_count, op, cont, saved, ops>>

\* Mutant of Login: the user name of the session object is not saved.
LoginKeepsUserName(t) ==
    /\ pc[t] = "cs_login"
    /\ \E rpc \in LoginOutcomes :
         LET tr == Append(trace[t], RpcEvent("Login", rpc, IF rpc.kind = "return" THEN keys + 1 ELSE 0,
                                      IF rpc.kind = "return" THEN SessionUserName(keys + 1) ELSE 0)) IN
           /\ faults' = faults + Failed(rpc)
           /\ lock' = 0
           /\ IF rpc.kind = "return"
              THEN /\ keys' = keys + 1
                   /\ srv' = srv \cup {keys + 1}
                   /\ session_id' = keys + 1
                   /\ session_username' = session_username
                   /\ vim_cookie' = keys + 1
                   /\ pbm' = set_soap_cookie(pbm, keys + 1)
                   /\ CsEnd(t, Return("None"), tr)
              ELSE /\ UNCHANGED <<keys, srv, session_id, session_username, vim_cookie, pbm>>
                   /\ CsEnd(t, rpc, tr)
    /\ UNCHANGED <<xvars, rvars, pvars, fvars, pbm_wsdl_loc, scenario, api_retry_count, op, cont, saved, ops>>

\* _create_session, lines 240-260: Login and the assignments that follow it.
Login(t) ==
    /\ pc[t] = "cs_login"
    /\ \E rpc \in LoginOutcomes :
         LET tr == Append(trace[t], RpcEvent("Login", rpc, IF rpc.kind = "return" THEN keys + 1 ELSE 0,
                                      IF rpc.kind = "return" THEN SessionUserName(keys + 1) ELSE 0)) IN
           /\ faults' = faults + Failed(rpc)
           /\ lock' = 0
           /\ IF rpc.kind = "return"
              THEN /\ keys' = keys + 1
                   /\ srv' = srv \cup {keys + 1}
                   /\ session_id' = keys + 1
                   /\ session_username' = SessionUserName(keys + 1)
                   /\ vim_cookie' = keys + 1
                   /\ pbm' = set_soap_cookie(pbm, keys + 1)
                   /\ CsEnd(t, Return("None"), tr)
              ELSE /\ UNCHANGED <<keys, srv, session_id, session_username, vim_cookie, pbm>>
                   /\ CsEnd(t, rpc, tr)
    /\ UNCHANGED <<xvars, rvars, pvars, fvars, pbm_wsdl_loc, scenario, api_retry_count, op, cont, saved, ops>>

\* The sleep between two attempts of _create_session is over.
CreateSessionWake(t) ==
    /\ pc[t] = "cs_sleep"
    /\ pc' = [pc EXCEPT ![t] = "cs_lock"]
    /\ UNCHANGED <<xvars, rvars, pvars, fvars, mvars, scenario, api_retry_count, session_id, session_username, srv, keys,
                   lock, csretry, op, cont, iaretry, saved, result, trace,
                   faults, ops>>

\* The server drops a session (idle timeout, restart).
Expire ==
    /\ \E k \in srv : srv' = srv \ {k}
    /\ UNCHANGED <<xvars, rvars, pvars, fvars, mvars, scenario, api_retry_count, session_id, session_username, keys, lock,
                   csretry, pc, op, cont, iaretry, saved, result, trace,
                   faults, ops>>

SessNext ==
    \/ \E t \in Threads : InvokeApi(t)
    \/ \E t \in Threads : CreateSession(t)
    \/ \E t \in Threads : InvokeTarget(t)
    \/ \E t \in Threads : NotAuthenticatedCheck(t)
    \/ \E t \in Threads : ConnectionCheck(t)
    \/ \E t \in Threads : InvokeApiWake(t)
    \/ \E t \in Threads : AcquireLock(t)
    \/ \E t \in Threads : CheckUnderLock(t)
    \/ \E t \in Threads : Login(t)
    \/ \E t \in Threads : CreateSessionWake(t)
    \/ Expire

vars == <<rvars, svars, pvars, fvars, mvars, xvars>>

\* A session object after construction, its server, and callers yet to call.
Init ==
    /\ api_retry_count \in -1..MaxRetry
    /\ session_id \in {0, 1}
    /\ session_username = SessionUserName(session_id)
    /\ keys = session_id
    /\ srv \in SUBSET (1..session_id)
    /\ lock = 0
    /\ csretry = CreateSessionDecorator
    /\ pc = [t \in Threads |-> "idle"]
    /\ op = [t \in Threads |-> "none"]
    /\ cont = [t \in Threads |-> "none"]
    /\ iaretry = [t \in Threads |-> InvokeApiDecorator]
    /\ saved = [t \in Threads |-> NoOutcome]
    /\ result = [t \in Threads |-> NoOutcome]
    /\ trace = [t \in Threads |-> <<>>]
    /\ faults = 0
    /\ ops = 0
    /\ scenario = "single"
    /\ retry = RetryDecorator(-1, 10, 60, {})
    /\ rstate = "idle"
    /\ rcalls = 0
    /\ rhist = <<>>
    /\ rresult = NoOutcome
    /\ rslept = <<>>
    /\ pkind = "none"
    /\ pstate = "idle"
    /\ phist = <<>>
    /\ perror = "None"
    /\ presult = NoOutcome
    /\ registry = FaultClassesRegistry
    /\ fcall = NoCall
    /\ handle = NoHandle
    /\ transfer = NoTransfer
    /\ retrieval = NoRetrieval
    /\ pbm = <<>>
    /\ pbm_wsdl_loc = "None"
    /\ vim_cookie = session_id

\* The same, with every thread a caller.
InitConc ==
    /\ api_retry_count \in -1..MaxRetry
    /\ session_id \in {0, 1}
    /\ session_username = SessionUserName(session_id)
    /\ keys = session_id
    /\ srv \in SUBSET (1..session_id)
    /\ lock = 0
    /\ csretry = CreateSessionDecorator
    /\ pc = [t \in Threads |-> "idle"]
    /\ op = [t \in Threads |-> "none"]
    /\ cont = [t \in Threads |-> "none"]
    /\ iaretry = [t \in Threads |-> InvokeApiDecorator]
    /\ saved = [t \in Threads |-> NoOutcome]
    /\ result = [t \in Threads |-> NoOutcome]
    /\ trace = [t \in Threads |-> <<>>]
    /\ faults = 0
    /\ ops = 0
    /\ scenario = "concurrent"
    /\ retry = RetryDecorator(-1, 10, 60, {})
    /\ rstate = "idle"
    /\ rcalls = 0
    /\ rhist = <<>>
    /\ rresult = NoOutcome
    /\ rslept = <<>>
    /\ pkind = "none"
    /\ pstate = "idle"
    /\ phist = <<>>
    /\ perror = "None"
    /\ presult = NoOutcome
    /\ registry = FaultClassesRegistry
    /\ fcall = NoCall
    /\ handle = NoHandle
    /\ transfer = NoTransfer
    /\ retrieval = NoRetrieval
    /\ pbm = <<>>
    /\ pbm_wsdl_loc = "None"
    /\ vim_cookie = session_id

Next == SessNext

Spec == Init /\ [][Next]_vars

SpecConc == InitConc /\ [][Next]_vars

\* A green thread that can take a step eventually takes it: an RPC in flight
\* ends, a sleep ends, a free lock is taken. Starting an operation is the
\* caller's choice and a session's expiry is the server's: neither is fair.
Fairness ==
    \A t \in Threads :
        /\ WF_vars(InvokeTarget(t))
        /\ WF_vars(NotAuthenticatedCheck(t))
        /\ WF_vars(ConnectionCheck(t))
        /\ WF_vars(InvokeApiWake(t))
        /\ WF_vars(AcquireLock(t))
        /\ WF_vars(CheckUnderLock(t))
        /\ WF_vars(Login(t))
        /\ WF_vars(CreateSessionWake(t))

\* Spec, with the green threads scheduled fairly.
SpecLive == Init /\ [][Next]_vars /\ Fairness


\* A RetryDecorator after construction; no session is in use.
RetryInit ==
    /\ \E n \in -1..MaxRetry, inc \in {0, 10}, e \in ExceptionTuples :
          retry = RetryDecorator(n, inc, 15, e)
    /\ rstate = "idle"
    /\ rcalls = 0
    /\ rhist = <<>>
    /\ rresult = NoOutcome
    /\ rslept = <<>>
    /\ pkind = "none"
    /\ pstate = "idle"
    /\ phist = <<>>
    /\ perror = "None"
    /\ presult = NoOutcome
    /\ registry = FaultClassesRegistry
    /\ fcall = NoCall
    /\ handle = NoHandle
    /\ transfer = NoTransfer
    /\ retrieval = NoRetrieval
    /\ pbm = <<>>
    /\ pbm_wsdl_loc = "None"
    /\ vim_cookie = 0
    /\ api_retry_count = 0
    /\ session_id = 0
    /\ session_username = 0
    /\ keys = 0
    /\ srv = {}
    /\ lock = 0
    /\ csretry = CreateSessionDecorator
    /\ pc = [t \in Threads |-> "idle"]
    /\ op = [t \in Threads |-> "none"]
    /\ cont = [t \in Threads |-> "none"]
    /\ iaretry = [t \in Threads |-> InvokeApiDecorator]
    /\ saved = [t \in Threads |-> NoOutcome]
    /\ result = [t \in Threads |-> NoOutcome]
    /\ trace = [t \in Threads |-> <<>>]
    /\ faults = 0
    /\ ops = 0
    /\ scenario = "single"

SpecRetry == RetryInit /\ [][RetryNext]_vars

\* ------------------------------------------- api.py: the pollers, SpecPoll
MaxPolls == 3

\* What invoke_api can raise to its caller.
InvokeApiFailures ==
    { Raise("VimException", <<>>),
      Raise("VimFaultException", <<"NotAFile">>),
      Raise("FileNotFoundException", <<>>),
      Raise("VimConnectionException", <<>>),
      Raise("VimSessionOverLoadException", <<>>),
      Raise("VimAttributeException", <<>>) }

\* invoke_api(vim_util, 'get_object_property', vim, task, 'info'): the state of
\* the task info it returns, an empty response, or an exception.
TaskInfoOutcomes ==
    { Return(st) : st \in {"queued", "running", "success", "error", "unknown", "[]"} }
        \cup InvokeApiFailures

\* The `error` attribute of a task info: a fault with a registered class, a
\* fault without one, None, or no such attribute.
TaskErrors == {"FileNotFound", "NotAFile", "None", "missing"}

\* invoke_api(vim_util, 'get_object_property', vim, lease, 'state')
LeaseStateOutcomes ==
    { Return(st) : st \in {"initializing", "ready", "error", "unknown", "[]"} }
        \cup InvokeApiFailures

\* invoke_api(vim_util, 'get_object_property', vim, lease, 'error'): a fault
\* with or without a registered class, a plain string, or an exception.
LeaseErrorOutcomes ==
    { Return(e) : e \in {"FileNotFound", "NotAFile", "error_msg"} }
        \cup InvokeApiFailures

\* translate_fault(localized_method_fault, excep_msg): the exception it
\* returns. A value without a `fault` attribute (None, a string) takes the
\* except clause.
translate_fault(localized_method_fault) ==
    IF localized_method_fault \in {"None", "Unknown", "error_msg"}
    THEN RaiseFrom("VimException", Raise("AttributeError", <<>>))
    ELSE IF get_fault_class(localized_method_fault) # "None"
    THEN Raise(get_fault_class(localized_method_fault), <<>>)
    ELSE Raise("VimFaultException", <<localized_method_fault>>)

\* Mutant of poll_task: a state that is not recognized is polled again.
PollTaskUnknownPollsAgain(read, error) ==
    IF read.kind = "raise" THEN [how |-> "raise", out |-> read]
    ELSE IF read.val = "[]"
    THEN [how |-> "raise", out |-> Raise("AttributeError", <<>>)]
    ELSE IF read.val \in {"queued", "running", "unknown"}
    THEN [how |-> "return", out |-> NoOutcome]
    ELSE IF read.val = "success"
    THEN [how |-> "LoopingCallDone", out |-> read]
    ELSE IF error = "missing"
    THEN [how |-> "raise", out |-> Raise("AttributeError", <<>>)]
    ELSE [how |-> "raise", out |-> translate_fault(error)]

\* Mutant of poll_task: an exception of the status read is swallowed and the
\* task is polled again.
PollTaskSwallowsReadError(read, error) ==
    IF read.kind = "raise" THEN [how |-> "return", out |-> NoOutcome]
    ELSE IF read.val = "[]"
    THEN [how |-> "raise", out |-> Raise("AttributeError", <<>>)]
    ELSE IF read.val \in {"queued", "running"}
    THEN [how |-> "return", out |-> NoOutcome]
    ELSE IF read.val = "success"
    THEN [how |-> "LoopingCallDone", out |-> read]
    ELSE IF error = "missing"
    THEN [how |-> "raise", out |-> Raise("AttributeError", <<>>)]
    ELSE [how |-> "raise", out |-> translate_fault(error)]

\* _poll_task, given what invoke_api did (read) and the error attribute of the
\* task info: how the function ends ("return": it returns and is called again
\* after the interval), and the exception or the LoopingCallDone value.
poll_task(read, error) ==
    IF read.kind = "raise" THEN [how |-> "raise", out |-> read]
    ELSE IF read.val = "[]"
    THEN [how |-> "raise", out |-> Raise("AttributeError", <<>>)]
    ELSE IF read.val \in {"queued", "running"}
    THEN [how |-> "return", out |-> NoOutcome]
    ELSE IF read.val = "success"
    THEN [how |-> "LoopingCallDone", out |-> read]
    ELSE IF error = "missing"
    THEN [how |-> "raise", out |-> Raise("AttributeError", <<>>)]
    ELSE [how |-> "raise", out |-> translate_fault(error)]

\* Mutant of poll_lease: the error state raises without the error being read.
PollLeaseErrorNotRead(read) ==
    IF read.kind = "raise" THEN [how |-> "raise", out |-> read]
    ELSE IF read.val = "ready"
    THEN [how |-> "LoopingCallDone", out |-> Return("None")]
    ELSE IF read.val = "initializing"
    THEN [how |-> "return", out |-> NoOutcome]
    ELSE [how |-> "raise", out |-> Raise("VimException", <<>>)]

\* _poll_lease, given what invoke_api did (read): as poll_task, with
\* "error": _get_error_message is called next.
poll_lease(read) ==
    IF read.kind = "raise" THEN [how |-> "raise", out |-> read]
    ELSE IF read.val = "ready"
    THEN [how |-> "LoopingCallDone", out |-> Return("None")]
    ELSE IF read.val = "initializing"
    THEN [how |-> "return", out |-> NoOutcome]
    ELSE IF read.val = "error"
    THEN [how |-> "error", out |-> NoOutcome]
    ELSE [how |-> "raise", out |-> Raise("VimException", <<>>)]

\* _get_error_message followed by line 499 of _poll_lease: the exception that
\* leaves _poll_lease, given what invoke_api did for the error property.
lease_error(read) ==
    IF read.kind = "return" THEN translate_fault(read.val)
    ELSE IF IsInstance(read.cls, "VimException") THEN translate_fault("Unknown")
    ELSE read

PollRead(prop, out) == [prop |-> prop, out |-> out]

\* FixedIntervalLoopingCall.start(interval): the loop waits the full interval
\* before each call of the polled function, the first one included.
LoopStart ==
    pstate' = "sleep"

\* Mutant of LoopStep: after a poll that asks for another one the loop polls
\* again without waiting.
LoopStepNoWait(r, hist) ==
    /\ phist' = hist
    /\ CASE r.how = "return" ->
              /\ pstate' = "poll"
              /\ presult' = presult
         [] r.how = "LoopingCallDone" ->
              /\ pstate' = "returned"
              /\ presult' = r.out
         [] r.how = "raise" ->
              /\ pstate' = "raised"
              /\ presult' = r.out
         [] r.how = "error" ->
              /\ pstate' = "error_read"
              /\ presult' = presult

\* FixedIntervalLoopingCall: what the loop does once the polled function has
\* ended as `r` says, after the reads in `hist`.
LoopStep(r, hist) ==
    /\ phist' = hist
    /\ CASE r.how = "return" ->
              /\ pstate' = "sleep"
              /\ presult' = presult
         [] r.how = "LoopingCallDone" ->
              /\ pstate' = "returned"
              /\ presult' = r.out
         [] r.how = "raise" ->
              /\ pstate' = "raised"
              /\ presult' = r.out
         [] r.how = "error" ->
              /\ pstate' = "error_read"
              /\ presult' = presult

\* wait_for_task(task): the loop over _poll_task is started.
WaitForTask ==
    /\ pstate = "idle"
    /\ pkind' = "task"
    /\ LoopStart
    /\ \E e \in TaskErrors : perror' = e
    /\ UNCHANGED <<xvars, phist, presult, rvars, svars, fvars, mvars>>

\* wait_for_lease_ready(lease)
WaitForLeaseReady ==
    /\ pstate = "idle"
    /\ pkind' = "lease"
    /\ LoopStart
    /\ UNCHANGED <<xvars, phist, perror, presult, rvars, svars, fvars, mvars>>

\* One call of _poll_task by the loop.
PollTask ==
    /\ pkind = "task"
    /\ pstate = "poll"
    /\ \E read \in TaskInfoOutcomes :
         /\ poll_task(read, perror).how = "return" => Len(phist) + 1 < MaxPolls
         /\ LoopStep(poll_task(read, perror), Append(phist, PollRead("info", read)))
    /\ UNCHANGED <<xvars, pkind, perror, rvars, svars, fvars, mvars>>

\* One call of _poll_lease by the loop, up to the call of _get_error_message.
PollLease ==
    /\ pkind = "lease"
    /\ pstate = "poll"
    /\ \E read \in LeaseStateOutcomes :
         /\ poll_lease(read).how = "return" => Len(phist) + 1 < MaxPolls
         /\ LoopStep(poll_lease(read), Append(phist, PollRead("state", read)))
    /\ UNCHANGED <<xvars, pkind, perror, rvars, svars, fvars, mvars>>

\* _poll_lease in the error state: _get_error_message and the raise.
GetErrorMessage ==
    /\ pstate = "error_read"
    /\ \E read \in LeaseErrorOutcomes :
         LoopStep([how |-> "raise", out |-> lease_error(read)],
                  Append(phist, PollRead("error", read)))
    /\ UNCHANGED <<xvars, pkind, perror, rvars, svars, fvars, mvars>>

\* The interval between two polls is over.
PollWake ==
    /\ pstate = "sleep"
    /\ pstate' = "poll"
    /\ UNCHANGED <<xvars, pkind, phist, perror, presult, rvars, svars, fvars, mvars>>

PollNext ==
    \/ WaitForTask
    \/ WaitForLeaseReady
    \/ PollTask
    \/ PollLease
    \/ GetErrorMessage
    \/ PollWake

\* No wait has been started; the session and the retry decorator are not used.
PollInit ==
    /\ pkind = "none"
    /\ pstate = "idle"
    /\ phist = <<>>
    /\ perror = "None"
    /\ presult = NoOutcome
    /\ registry = FaultClassesRegistry
    /\ fcall = NoCall
    /\ handle = NoHandle
    /\ transfer = NoTransfer
    /\ retrieval = NoRetrieval
    /\ pbm = <<>>
    /\ pbm_wsdl_loc = "None"
    /\ vim_cookie = 0
    /\ retry = RetryDecorator(-1, 10, 60, {})
    /\ rstate = "idle"
    /\ rcalls = 0
    /\ rhist = <<>>
    /\ rresult = NoOutcome
    /\ rslept = <<>>
    /\ api_retry_count = 0
    /\ session_id = 0
    /\ session_username = 0
    /\ keys = 0
    /\ srv = {}
    /\ lock = 0
    /\ csretry = CreateSessionDecorator
    /\ pc = [t \in Threads |-> "idle"]
    /\ op = [t \in Threads |-> "none"]
    /\ cont = [t \in Threads |-> "none"]
    /\ iaretry = [t \in Threads |-> InvokeApiDecorator]
    /\ saved = [t \in Threads |-> NoOutcome]
    /\ result = [t \in Threads |-> NoOutcome]
    /\ trace = [t \in Threads |-> <<>>]
    /\ faults = 0
    /\ ops = 0
    /\ scenario = "single"

SpecPoll == PollInit /\ [][PollNext]_vars

\* ------------------------------------- the fault taxonomy, SpecFault
\* The fault names looked up: every name of the registry and two others.
FaultNames == DOMAIN FaultClassesRegistry \cup {"NotAFile", "ValueError"}

\* The names and the classes given to register_fault_class: a registered and
\* an unregistered name; subclasses of VimException and classes that are not.
RegisterNames == {"AlreadyExists", "ValueError"}

RegisterClasses ==
    {"VimSubClass", "FileNotFoundException", "ValueError", "VimConnectionException"}

\* The fault lists of the VimFaultException objects a target raises.
FaultLists ==
    { <<>>, <<"FileNotFound">>, <<"NotAFile">>, <<"ValueError">>,
      <<"AlreadyExists", "NotAFile">>, <<"NotAFile", "FileNotFound">>,
      <<NOT_AUTHENTICATED>>, <<"FileNotFound", NOT_AUTHENTICATED>> }

VimFaultExceptions ==
    { Exc("VimFaultException", <<"msg">>, cause, fl, details) :
        cause \in {<<>>, <<"cause">>},
        fl \in FaultLists,
        details \in {<<>>, <<"name", "value">>} }

\* Mutant of SpecificFaultException: the details of the fault are dropped.
SpecificFaultExceptionNoDetails(excep) ==
    IF excep.fault_list # <<>> /\ get_fault_class(excep.fault_list[1]) # "None"
    THEN Exc(get_fault_class(excep.fault_list[1]), description(excep), <<>>,
             <<>>, <<>>)
    ELSE excep

\* invoke_api, lines 332-343, with the attributes of the exception: the
\* exception that leaves _invoke_api for a VimFaultException that is not a
\* session fault. clazz(str(excep), details=excep.details), or excep itself.
SpecificFaultException(excep) ==
    IF excep.fault_list # <<>> /\ get_fault_class(excep.fault_list[1]) # "None"
    THEN Exc(get_fault_class(excep.fault_list[1]), description(excep), <<>>,
             <<>>, excep.details)
    ELSE excep

\* The `type` attributes of the children of the detail element of a SOAP fault.
WebFaultTypes ==
    { "SecurityError", "vim25:SecurityError", "NotAuthenticated",
      "vim25:NotAuthenticated", "FileNotFound", "SecurityErrorFault" }

\* str.endswith over WebFaultTypes: the part of the type after its namespace
\* prefix is the only proper suffix that is a fault name.
EndsWith(fault_type, suffix) ==
    \/ fault_type = suffix
    \/ fault_type = "vim25:SecurityError" /\ suffix = "SecurityError"
    \/ fault_type = "vim25:NotAuthenticated" /\ suffix = "NotAuthenticated"

SECURITY_ERROR == "SecurityError"

\* Mutant of FaultType: only a NotAuthenticated type is reported as such.
FaultTypeNoSecurityError(fault_type) ==
    IF EndsWith(fault_type, NOT_AUTHENTICATED)
    THEN NOT_AUTHENTICATED
    ELSE fault_type

\* request_handler, lines 406-410: the name appended to fault_list for one
\* child of the detail element.
FaultType(fault_type) ==
    IF EndsWith(fault_type, SECURITY_ERROR) \/ EndsWith(fault_type, NOT_AUTHENTICATED)
    THEN NOT_AUTHENTICATED
    ELSE fault_type

\* request_handler, the except clause for suds.WebFault: the exception raised
\* for a fault whose detail element has children of the given types.
WebFault(types, details) ==
    Exc("VimFaultException", <<"faultstring">>, <<"WebFault">>,
        [i \in 1..Len(types) |-> FaultType(types[i])], details)

\* get_fault_class(name)
GetFaultClass ==
    /\ \E name \in FaultNames :
         fcall' = FaultCall("get_fault_class", name, "None", <<>>, NoExc,
                            get_fault_class(name), NoExc)
    /\ UNCHANGED <<xvars, registry, rvars, svars, pvars, mvars>>

\* get_fault_class(name) of the deprecated namespace package
LegacyGetFaultClass ==
    /\ \E name \in FaultNames :
         fcall' = FaultCall("legacy_get_fault_class", name, "None", <<>>, NoExc,
                            legacy_get_fault_class(name), NoExc)
    /\ UNCHANGED <<xvars, registry, rvars, svars, pvars, mvars>>

\* Mutant of RegisterFaultClass: the class is registered before it is checked.
RegisterFaultClassUnchecked ==
    /\ \E name \in RegisterNames, exception \in RegisterClasses :
         /\ registry' = [n \in DOMAIN registry \cup {name} |->
                             IF n = name THEN exception ELSE registry[n]]
         /\ fcall' = IF IsInstance(exception, "VimException")
                     THEN FaultCall("register_fault_class", name, exception,
                                    <<>>, NoExc, "None", NoExc)
                     ELSE FaultCall("register_fault_class", name, exception,
                                    <<>>, NoExc, "None",
                                    Exc("TypeError", <<"msg">>, <<>>, <<>>, <<>>))
    /\ UNCHANGED <<xvars, rvars, svars, pvars, mvars>>

\* register_fault_class(name, exception)
RegisterFaultClass ==
    /\ \E name \in RegisterNames, exception \in RegisterClasses :
         IF IsInstance(exception, "VimException")
         THEN /\ registry' = [n \in DOMAIN registry \cup {name} |->
                                  IF n = name THEN exception ELSE registry[n]]
              /\ fcall' = FaultCall("register_fault_class", name, exception,
                                    <<>>, NoExc, "None", NoExc)
         ELSE /\ registry' = registry
              /\ fcall' = FaultCall("register_fault_class", name, exception,
                                    <<>>, NoExc, "None",
                                    Exc("TypeError", <<"msg">>, <<>>, <<>>, <<>>))
    /\ UNCHANGED <<xvars, rvars, svars, pvars, mvars>>

\* invoke_api with a target that raises a VimFaultException without
\* NotAuthenticated in its fault list.
InvokeApiFault ==
    /\ \E excep \in VimFaultExceptions :
         /\ ~SessionFault(excep)
         /\ fcall' = FaultCall("invoke_api", "None", "None", <<>>, excep, "None",
                               SpecificFaultException(excep))
    /\ UNCHANGED <<xvars, registry, rvars, svars, pvars, mvars>>

\* invoke_api with a target that raises a VimFaultException with
\* NotAuthenticated in its fault list: line 305 sends it to the liveness check
\* of line 313, and no exception is built from the fault list.
InvokeApiSessionFault ==
    /\ \E excep \in VimFaultExceptions :
         /\ SessionFault(excep)
         /\ fcall' = FaultCall("invoke_api_session", "None", "None", <<>>, excep,
                               "is_current_session_active", NoExc)
    /\ UNCHANGED <<xvars, registry, rvars, svars, pvars, mvars>>

\* The localizedMessage of the LocalizedMethodFault of a failed task.
LocalizedMessages == { <<"Error message">>, <<"File", "not", "found">> }

\* A vmodl.LocalizedMethodFault: the class name of its fault and its
\* localizedMessage.
LocalizedMethodFault(name, localizedMessage) ==
    Exc(name, localizedMessage, <<>>, <<>>, <<>>)

\* VMwareDriverException.__init__, lines 71-83: without a message the
\* exception takes the msg_fmt of its class.
MessageOrDefault(message) ==
    IF message = <<>> THEN <<"msg_fmt">> ELSE message

\* Mutant of TranslateFaultException: the name of an unregistered fault is
\* not kept.
TranslateFaultExceptionNoName(localized_method_fault) ==
    IF get_fault_class(localized_method_fault.cls) # "None"
    THEN Exc(get_fault_class(localized_method_fault.cls),
             MessageOrDefault(localized_method_fault.message), <<>>, <<>>, <<>>)
    ELSE Exc("VimFaultException", MessageOrDefault(localized_method_fault.message),
             <<>>, <<>>, <<>>)

\* translate_fault(localized_method_fault), lines 301-309, with the
\* attributes of the exception it returns: fault_class(excep_msg) or
\* VimFaultException([name], excep_msg), excep_msg being the localizedMessage.
TranslateFaultException(localized_method_fault) ==
    IF get_fault_class(localized_method_fault.cls) # "None"
    THEN Exc(get_fault_class(localized_method_fault.cls),
             MessageOrDefault(localized_method_fault.message), <<>>, <<>>, <<>>)
    ELSE Exc("VimFaultException", MessageOrDefault(localized_method_fault.message),
             <<>>, <<localized_method_fault.cls>>, <<>>)

\* _poll_task, lines 447-448: the task info read has the state 'error' and
\* its error is a fault; the poll raises translate_fault(task_info.error).
PollTaskError ==
    /\ \E name \in FaultNames, localizedMessage \in LocalizedMessages :
         LET error == LocalizedMethodFault(name, localizedMessage) IN
           fcall' = FaultCall("_poll_task", name, "None", <<>>, error, "None",
                              TranslateFaultException(error))
    /\ UNCHANGED <<xvars, registry, rvars, svars, pvars, mvars>>

\* request_handler with a SOAP request that raises suds.WebFault
RequestHandlerWebFault ==
    /\ \E t1 \in WebFaultTypes, rest \in {<<>>, <<"FileNotFound">>},
          details \in {<<>>, <<"name", "value">>} :
         fcall' = FaultCall("request_handler", "None", "None", <<t1>> \o rest,
                            NoExc, "None", WebFault(<<t1>> \o rest, details))
    /\ UNCHANGED <<xvars, registry, rvars, svars, pvars, mvars>>

FaultNext ==
    \/ GetFaultClass
    \/ LegacyGetFaultClass
    \/ RegisterFaultClass
    \/ InvokeApiFault
    \/ InvokeApiSessionFault
    \/ PollTaskError
    \/ RequestHandlerWebFault

\* The registry as the module is loaded; nothing else is in use.
FaultInit ==
    /\ registry = FaultClassesRegistry
    /\ fcall = NoCall
    /\ handle = NoHandle
    /\ transfer = NoTransfer
    /\ retrieval = NoRetrieval
    /\ pbm = <<>>
    /\ pbm_wsdl_loc = "None"
    /\ vim_cookie = 0
    /\ pkind = "none"
    /\ pstate = "idle"
    /\ phist = <<>>
    /\ perror = "None"
    /\ presult = NoOutcome
    /\ retry = RetryDecorator(-1, 10, 60, {})
    /\ rstate = "idle"
    /\ rcalls = 0
    /\ rhist = <<>>
    /\ rresult = NoOutcome
    /\ rslept = <<>>
    /\ api_retry_count = 0
    /\ session_id = 0
    /\ session_username = 0
    /\ keys = 0
    /\ srv = {}
    /\ lock = 0
    /\ csretry = CreateSessionDecorator
    /\ pc = [t \in Threads |-> "idle"]
    /\ op = [t \in Threads |-> "none"]
    /\ cont = [t \in Threads |-> "none"]
    /\ iaretry = [t \in Threads |-> InvokeApiDecorator]
    /\ saved = [t \in Threads |-> NoOutcome]
    /\ result = [t \in Threads |-> NoOutcome]
    /\ trace = [t \in Threads |-> <<>>]
    /\ faults = 0
    /\ ops = 0
    /\ scenario = "single"

SpecFault == FaultInit /\ [][FaultNext]_vars

\* --------------------- api.py: logout and the PBM client, SpecMgmt
\* The Logout RPC
LogoutOutcomes ==
    { Return("None") } \cup (IF faults < FaultBudget THEN RpcFailures ELSE {})

\* The cookie the Logout request of caller t carries: the cookie of the VIM
\* client when the request is sent.
LogoutCookie(t) ==
    IF pc[t] = "lo_sent" THEN trace[t][Len(trace[t])].sid ELSE vim_cookie

\* logout(), line 264: the test of self._session_id; without a session id the
\* method returns at once.
LogoutCall(t) ==
    /\ t \in CallingThreads
    /\ pc[t] \in CallablePcs
    /\ ops < OpBudget
    /\ ops' = ops + 1
    /\ op' = [op EXCEPT ![t] = "logout"]
    /\ saved' = [saved EXCEPT ![t] = NoOutcome]
    /\ trace' = [trace EXCEPT ![t] = <<Event("logout_begin", NoOutcome, session_id)>>]
    /\ IF session_id # 0
       THEN /\ pc' = [pc EXCEPT ![t] = "lo_rpc"]
            /\ result' = [result EXCEPT ![t] = NoOutcome]
       ELSE /\ pc' = [pc EXCEPT ![t] = "done"]
            /\ result' = [result EXCEPT ![t] = Return("None")]
    /\ UNCHANGED <<xvars, rvars, pvars, fvars, mvars, scenario, api_retry_count, session_id,
                   session_username, srv, keys, lock, csretry, cont, iaretry, faults>>

\* logout(), line 268: the Logout request reaches the server, which ends the
\* session of the cookie the request carries. The caller is suspended until
\* the response arrives; other callers run meanwhile.
LogoutSend(t) ==
    /\ pc[t] = "lo_rpc"
    /\ srv' = srv \ {vim_cookie}
    /\ trace' = [trace EXCEPT ![t] = Append(@, Event("LogoutSent", NoOutcome, vim_cookie))]
    /\ pc' = [pc EXCEPT ![t] = "lo_sent"]
    /\ UNCHANGED <<xvars, rvars, pvars, fvars, mvars, scenario, api_retry_count, session_id,
                   session_username, keys, lock, csretry, op, cont, iaretry, saved,
                   result, faults, ops>>

\* Mutant of LogoutRpc: the session id is dropped also when the RPC fails.
LogoutRpcAlwaysClears(t) ==
    /\ pc[t] \in {"lo_rpc", "lo_sent"}
    /\ \E rpc \in LogoutOutcomes :
         /\ rpc.kind = "return" => pc[t] = "lo_sent"
         /\ faults' = faults + Failed(rpc)
         /\ trace' = [trace EXCEPT ![t] = Append(@, Event("Logout", rpc, LogoutCookie(t)))]
         /\ session_id' = 0
    /\ pc' = [pc EXCEPT ![t] = "done"]
    /\ result' = [result EXCEPT ![t] = Return("None")]
    /\ UNCHANGED <<xvars, rvars, pvars, fvars, mvars, scenario, api_retry_count, session_username,
                   srv, keys, lock, csretry, op, cont, iaretry, saved, ops>>

\* logout(), lines 268-275: the Logout RPC ends: it returns once the server
\* has answered the request, or raises (before or after the request reached
\* the server); `self._session_id = None` follows a return, `except Exception`
\* logs whatever is raised.
LogoutRpc(t) ==
    /\ pc[t] \in {"lo_rpc", "lo_sent"}
    /\ \E rpc \in LogoutOutcomes :
         /\ rpc.kind = "return" => pc[t] = "lo_sent"
         /\ faults' = faults + Failed(rpc)
         /\ trace' = [trace EXCEPT ![t] = Append(@, Event("Logout", rpc, LogoutCookie(t)))]
         /\ IF rpc.kind = "return"
            THEN session_id' = 0
            ELSE UNCHANGED session_id
    /\ pc' = [pc EXCEPT ![t] = "done"]
    /\ result' = [result EXCEPT ![t] = Return("None")]
    /\ UNCHANGED <<xvars, rvars, pvars, fvars, mvars, scenario, api_retry_count, session_username,
                   srv, keys, lock, csretry, op, cont, iaretry, saved, ops>>

\* pbm_wsdl_loc_set(pbm_wsdl_loc)
PbmWsdlLocSet(t) ==
    /\ t \in CallingThreads
    /\ pc[t] \in CallablePcs
    /\ ops < OpBudget
    /\ ops' = ops + 1
    /\ op' = [op EXCEPT ![t] = "pbm_wsdl_loc_set"]
    /\ \E loc \in {"None", "pbm.wsdl"} : pbm_wsdl_loc' = loc
    /\ pbm' = <<>>
    /\ pc' = [pc EXCEPT ![t] = "done"]
    /\ saved' = [saved EXCEPT ![t] = NoOutcome]
    /\ result' = [result EXCEPT ![t] = Return("None")]
    /\ trace' = [trace EXCEPT ![t] = <<>>]
    /\ UNCHANGED <<xvars, rvars, pvars, fvars, vim_cookie, scenario, api_retry_count, session_id,
                   session_username, srv, keys, lock, csretry, cont, iaretry, faults>>

\* The pbm property, line 211: a client is built when there is none and a
\* WSDL location is set; otherwise self._pbm is returned as it is.
PbmAccess(t) ==
    /\ t \in CallingThreads
    /\ pc[t] \in CallablePcs
    /\ ops < OpBudget
    /\ ops' = ops + 1
    /\ op' = [op EXCEPT ![t] = "pbm"]
    /\ pc' = [pc EXCEPT ![t] = IF pbm = <<>> /\ pbm_wsdl_loc # "None"
                               THEN "pbm_build" ELSE "done"]
    /\ saved' = [saved EXCEPT ![t] = NoOutcome]
    /\ result' = [result EXCEPT ![t] = Return("None")]
    /\ trace' = [trace EXCEPT ![t] = <<>>]
    /\ UNCHANGED <<xvars, rvars, pvars, fvars, mvars, scenario, api_retry_count, session_id,
                   session_username, srv, keys, lock, csretry, cont, iaretry, faults>>

\* The pbm property, lines 212-226: pbm.Pbm(...) has loaded its WSDL; the
\* client is assigned and, when a session id is held, given the VIM cookie.
PbmBuilt(t) ==
    /\ pc[t] = "pbm_build"
    /\ pbm' = IF session_id # 0 THEN set_soap_cookie(<<0>>, vim_cookie) ELSE <<0>>
    /\ pc' = [pc EXCEPT ![t] = "done"]
    /\ UNCHANGED <<xvars, rvars, pvars, fvars, pbm_wsdl_loc, vim_cookie, scenario, api_retry_count,
                   session_id, session_username, srv, keys, lock, csretry, op, cont,
                   iaretry, saved, result, trace, faults, ops>>

MgmtNext ==
    \/ \E t \in Threads : InvokeApi(t)
    \/ \E t \in Threads : CreateSession(t)
    \/ \E t \in Threads : InvokeTarget(t)
    \/ \E t \in Threads : NotAuthenticatedCheck(t)
    \/ \E t \in Threads : ConnectionCheck(t)
    \/ \E t \in Threads : InvokeApiWake(t)
    \/ \E t \in Threads : AcquireLock(t)
    \/ \E t \in Threads : CheckUnderLock(t)
    \/ \E t \in Threads : Login(t)
    \/ \E t \in Threads : CreateSessionWake(t)
    \/ \E t \in Threads : LogoutCall(t)
    \/ \E t \in Threads : LogoutSend(t)
    \/ \E t \in Threads : LogoutRpc(t)
    \/ \E t \in Threads : PbmWsdlLocSet(t)
    \/ \E t \in Threads : PbmAccess(t)
    \/ \E t \in Threads : PbmBuilt(t)

\* A session object after construction, with or without a session (which the
\* server may have dropped already) and a PBM WSDL location, and no PBM client
\* yet. Sessions end by logout.
MgmtInit ==
    /\ api_retry_count = 1
    /\ session_id \in {0, 1}
    /\ session_username = SessionUserName(session_id)
    /\ vim_cookie = session_id
    /\ keys = session_id
    /\ srv \in SUBSET (1..session_id)
    /\ pbm = <<>>
    /\ pbm_wsdl_loc \in {"None", "pbm.wsdl"}
    /\ lock = 0
    /\ csretry = CreateSessionDecorator
    /\ pc = [t \in Threads |-> "idle"]
    /\ op = [t \in Threads |-> "none"]
    /\ cont = [t \in Threads |-> "none"]
    /\ iaretry = [t \in Threads |-> InvokeApiDecorator]
    /\ saved = [t \in Threads |-> NoOutcome]
    /\ result = [t \in Threads |-> NoOutcome]
    /\ trace = [t \in Threads |-> <<>>]
    /\ faults = 0
    /\ ops = 0
    /\ scenario = "mgmt"
    /\ retry = RetryDecorator(-1, 10, 60, {})
    /\ rstate = "idle"
    /\ rcalls = 0
    /\ rhist = <<>>
    /\ rresult = NoOutcome
    /\ rslept = <<>>
    /\ pkind = "none"
    /\ pstate = "idle"
    /\ phist = <<>>
    /\ perror = "None"
    /\ presult = NoOutcome
    /\ registry = FaultClassesRegistry
    /\ fcall = NoCall
    /\ handle = NoHandle
    /\ transfer = NoTransfer
    /\ retrieval = NoRetrieval

SpecMgmt == MgmtInit /\ [][MgmtNext]_vars

\* ------------------------------- rw_handles.py: closing a VMDK handle
\* The size of the VMDK, in chunks.
MaxVmdkSize == 2

\* The states of an HttpNfcLease.
LeaseStates == {"initializing", "ready", "done", "error"}

\* What an invoke_api call of _release_lease may raise.
LeaseCallFailures ==
    { Raise("ManagedObjectNotFoundException", <<>>),
      Raise("VimFaultException", <<"InvalidState">>),
      Raise("VimException", <<>>),
      Raise("VimConnectionException", <<>>) }

\* A VMDK read or write handle on an open connection, nothing transferred yet.
VmdkHandle(kind, vmdk_size) ==
    [pc |-> "open", kind |-> kind, vmdk_size |-> vmdk_size, bytes |-> 0,
     state |-> "None", next |-> "None", calls |-> <<>>, conn_closed |-> FALSE,
     release |-> NoOutcome, result |-> NoOutcome]

\* VmdkWriteHandle._get_progress / VmdkReadHandle._get_progress: the per cent
\* of vmdk_size transferred.
get_progress(h) == (h.bytes * 100) \div h.vmdk_size

\* Mutant of ReleaseDecision: a complete transfer completes the lease
\* whatever its state.
ReleaseDecisionIgnoresState(h, state) ==
    IF get_progress(h) < 100 THEN "HttpNfcLeaseAbort"
    ELSE "HttpNfcLeaseComplete"

\* _release_lease, lines 355-371: the lease call that follows the read of the
\* lease state.
ReleaseDecision(h, state) ==
    IF get_progress(h) < 100 THEN "HttpNfcLeaseAbort"
    ELSE IF state = "ready" THEN "HttpNfcLeaseComplete"
    ELSE "None"

\* VmdkWriteHandle.close, lines 551-569, and VmdkReadHandle.close, lines
\* 636-656, given what _release_lease did: whether FileHandle.close is called
\* on the connection, and what close returns or raises.
VmdkClose(kind, release) ==
    IF release.kind = "raise" /\ IsInstance(release.cls, "ManagedObjectNotFoundException")
    THEN [conn_closed |-> kind = "read", result |-> Return("None")]
    ELSE IF release.kind = "raise" /\ IsInstance(release.cls, "VimException")
    THEN [conn_closed |-> TRUE,
          result |-> IF kind = "read" THEN release ELSE Return("None")]
    ELSE IF release.kind = "raise"
    THEN [conn_closed |-> kind = "read", result |-> release]
    ELSE [conn_closed |-> TRUE, result |-> Return("None")]

\* close() once _release_lease has ended with `release`, having made `calls`.
CloseEnd(h, release, calls) ==
    [h EXCEPT !.pc = "closed", !.calls = calls, !.release = release,
              !.conn_closed = VmdkClose(h.kind, release).conn_closed,
              !.result = VmdkClose(h.kind, release).result]

\* read() / write(): one more chunk goes through the handle.
HandleTransfer ==
    /\ handle.pc = "open"
    /\ handle.bytes < MaxVmdkSize
    /\ handle' = [handle EXCEPT !.bytes = @ + 1]
    /\ UNCHANGED <<rvars, svars, pvars, fvars, mvars, transfer, retrieval>>

\* close() is called.
HandleClose ==
    /\ handle.pc = "open"
    /\ handle' = [handle EXCEPT !.pc = "rl_state"]
    /\ UNCHANGED <<rvars, svars, pvars, fvars, mvars, transfer, retrieval>>

\* _release_lease, lines 347-371: invoke_api reads the lease state; the
\* lease call is chosen from it and from the progress.
ReleaseLeaseState ==
    /\ handle.pc = "rl_state"
    /\ \E read \in {Return(st) : st \in LeaseStates} \cup LeaseCallFailures :
         LET calls == Append(handle.calls, "state") IN
           IF read.kind = "raise"
           THEN handle' = CloseEnd(handle, read, calls)
           ELSE IF ReleaseDecision(handle, read.val) = "None"
           THEN handle' = CloseEnd([handle EXCEPT !.state = read.val],
                                   Return("None"), calls)
           ELSE handle' = [handle EXCEPT !.pc = "rl_call", !.state = read.val,
                                         !.calls = calls,
                                         !.next = ReleaseDecision(handle, read.val)]
    /\ UNCHANGED <<rvars, svars, pvars, fvars, mvars, transfer, retrieval>>

\* _release_lease, lines 358-365: invoke_api(vim, 'HttpNfcLeaseAbort', lease)
\* or invoke_api(vim, 'HttpNfcLeaseComplete', lease).
ReleaseLeaseCall ==
    /\ handle.pc = "rl_call"
    /\ \E out \in {Return("None")} \cup LeaseCallFailures :
         handle' = CloseEnd(handle, out, Append(handle.calls, handle.next))
    /\ UNCHANGED <<rvars, svars, pvars, fvars, mvars, transfer, retrieval>>

HandleNext ==
    \/ HandleTransfer
    \/ HandleClose
    \/ ReleaseLeaseState
    \/ ReleaseLeaseCall

\* A VMDK read or write handle after construction.
HandleInit ==
    /\ handle \in {VmdkHandle(kind, vmdk_size) :
                      kind \in {"read", "write"}, vmdk_size \in 1..MaxVmdkSize}
    /\ transfer = NoTransfer
    /\ retrieval = NoRetrieval
    /\ registry = FaultClassesRegistry
    /\ fcall = NoCall
    /\ pbm = <<>>
    /\ pbm_wsdl_loc = "None"
    /\ vim_cookie = 0
    /\ retry = RetryDecorator(-1, 10, 60, {})
    /\ rstate = "idle"
    /\ rcalls = 0
    /\ rhist = <<>>
    /\ rresult = NoOutcome
    /\ rslept = <<>>
    /\ pkind = "none"
    /\ pstate = "idle"
    /\ phist = <<>>
    /\ perror = "None"
    /\ presult = NoOutcome
    /\ api_retry_count = 0
    /\ session_id = 0
    /\ session_username = 0
    /\ keys = 0
    /\ srv = {}
    /\ lock = 0
    /\ csretry = CreateSessionDecorator
    /\ pc = [t \in Threads |-> "idle"]
    /\ op = [t \in Threads |-> "none"]
    /\ cont = [t \in Threads |-> "none"]
    /\ iaretry = [t \in Threads |-> InvokeApiDecorator]
    /\ saved = [t \in Threads |-> NoOutcome]
    /\ result = [t \in Threads |-> NoOutcome]
    /\ trace = [t \in Threads |-> <<>>]
    /\ faults = 0
    /\ ops = 0
    /\ scenario = "single"

SpecHandle == HandleInit /\ [][HandleNext]_vars

\* --------------------------------- image_transfer.py: _start_transfer
\* The chunks of the image.
MaxChunks == 2

\* The classes of the handles given to _start_transfer.
ReadHandleKinds == {"VmdkReadHandle", "ImageReadHandle"}

WriteHandleKinds == {"VmdkWriteHandle", "FileWriteHandle"}

\* _create_progress_updater, lines 42-46: a looping call for a VmdkHandle,
\* None for any other handle.
create_progress_updater(kind) ==
    IF kind \in {"VmdkReadHandle", "VmdkWriteHandle"} THEN "running" ELSE "None"

\* What close() of a handle may do: VmdkReadHandle.close re-raises what
\* _release_lease raised (ManagedObjectNotFoundException aside),
\* VmdkWriteHandle.close lets through what is not a VimException, the other
\* handles log or have nothing to do.
HandleCloseOutcomes(kind) ==
    CASE kind = "VmdkReadHandle" ->
            { Return("None"), Raise("VimException", <<>>),
              Raise("VimConnectionException", <<>>) }
      [] kind = "VmdkWriteHandle" ->
            { Return("None"), Raise("VimConnectionException", <<>>) }
      [] OTHER -> { Return("None") }

\* _start_transfer, lines 52-55: the updaters and the timer are started.
StartTransfer(read_kind, write_kind) ==
    [pc |-> "read", read_kind |-> read_kind, write_kind |-> write_kind,
     chunks |-> 0, timer |-> "running",
     read_updater |-> create_progress_updater(read_kind),
     write_updater |-> create_progress_updater(write_kind),
     read_closed |-> FALSE, write_closed |-> FALSE,
     loop |-> NoOutcome, result |-> NoOutcome]

\* _start_transfer, lines 62-73: what leaves the try statement when the copy
\* loop raised excep (the timeout or any exception of read or write).
CopyLoopFailure(excep) == RaiseFrom("ImageTransferException", excep)

\* _start_transfer, lines 74-79, entered with the outcome of the try
\* statement: the timer is cancelled and the updaters are stopped; the close
\* of the read handle is next.
EnterFinally(tr, out) ==
    [tr EXCEPT !.pc = "close_read", !.loop = out, !.timer = "cancelled",
               !.read_updater = IF @ = "None" THEN @ ELSE "stopped",
               !.write_updater = IF @ = "None" THEN @ ELSE "stopped"]

\* _start_transfer, lines 58-60: read_handle.read(CHUNK_SIZE).
TransferRead ==
    /\ transfer.pc = "read"
    /\ \/ /\ transfer.chunks < MaxChunks
          /\ transfer' = [transfer EXCEPT !.pc = "write"]
       \/ transfer' = EnterFinally(transfer, Return("None"))
       \/ \E excep \in {Raise("VimException", <<>>), Raise("Timeout", <<>>)} :
            transfer' = EnterFinally(transfer, CopyLoopFailure(excep))
    /\ UNCHANGED <<rvars, svars, pvars, fvars, mvars, handle, retrieval>>

\* _start_transfer, line 61: write_handle.write(data).
TransferWrite ==
    /\ transfer.pc = "write"
    /\ \/ transfer' = [transfer EXCEPT !.pc = "read", !.chunks = @ + 1]
       \/ \E excep \in {Raise("VimException", <<>>), Raise("VimConnectionException", <<>>),
                        Raise("Timeout", <<>>)} :
            transfer' = EnterFinally(transfer, CopyLoopFailure(excep))
    /\ UNCHANGED <<rvars, svars, pvars, fvars, mvars, handle, retrieval>>

\* _start_transfer, line 80: read_handle.close(); an exception leaves the
\* finally clause, and the function, at once.
TransferCloseRead ==
    /\ transfer.pc = "close_read"
    /\ \E out \in HandleCloseOutcomes(transfer.read_kind) :
         transfer' = IF out.kind = "raise"
                     THEN [transfer EXCEPT !.pc = "done", !.result = out]
                     ELSE [transfer EXCEPT !.pc = "close_write", !.read_closed = TRUE]
    /\ UNCHANGED <<rvars, svars, pvars, fvars, mvars, handle, retrieval>>

\* _start_transfer, line 81: write_handle.close(); then the outcome of the
\* try statement leaves the function, unless close raised.
TransferCloseWrite ==
    /\ transfer.pc = "close_write"
    /\ \E out \in HandleCloseOutcomes(transfer.write_kind) :
         transfer' = IF out.kind = "raise"
                     THEN [transfer EXCEPT !.pc = "done", !.result = out]
                     ELSE [transfer EXCEPT !.pc = "done", !.write_closed = TRUE,
                                           !.result = transfer.loop]
    /\ UNCHANGED <<rvars, svars, pvars, fvars, mvars, handle, retrieval>>

TransferNext ==
    \/ TransferRead
    \/ TransferWrite
    \/ TransferCloseRead
    \/ TransferCloseWrite

\* _start_transfer has been called with two handles.
TransferInit ==
    /\ transfer \in {StartTransfer(rk, wk) : rk \in ReadHandleKinds, wk \in WriteHandleKinds}
    /\ handle = NoHandle
    /\ retrieval = NoRetrieval
    /\ registry = FaultClassesRegistry
    /\ fcall = NoCall
    /\ pbm = <<>>
    /\ pbm_wsdl_loc = "None"
    /\ vim_cookie = 0
    /\ retry = RetryDecorator(-1, 10, 60, {})
    /\ rstate = "idle"
    /\ rcalls = 0
    /\ rhist = <<>>
    /\ rresult = NoOutcome
    /\ rslept = <<>>
    /\ pkind = "none"
    /\ pstate = "idle"
    /\ phist = <<>>
    /\ perror = "None"
    /\ presult = NoOutcome
    /\ api_retry_count = 0
    /\ session_id = 0
    /\ session_username = 0
    /\ keys = 0
    /\ srv = {}
    /\ lock = 0
    /\ csretry = CreateSessionDecorator
    /\ pc = [t \in Threads |-> "idle"]
    /\ op = [t \in Threads |-> "none"]
    /\ cont = [t \in Threads |-> "none"]
    /\ iaretry = [t \in Threads |-> InvokeApiDecorator]
    /\ saved = [t \in Threads |-> NoOutcome]
    /\ result = [t \in Threads |-> NoOutcome]
    /\ trace = [t \in Threads |-> <<>>]
    /\ faults = 0
    /\ ops = 0
    /\ scenario = "single"


SpecTransfer == TransferInit /\ [][TransferNext]_vars

\* ------------------------------------------- vim_util.py: WithRetrieval
\* The result pages the server holds for one retrieval, and their sizes.
MaxPages == 3

MaxPageSize == 2

\* The retrieve_result None.
NoResult == [held |-> FALSE, objects |-> <<>>, token |-> 0]

\* The objects of pages of the given sizes, numbered in server order from
\* first + 1.
RECURSIVE ServerPages(_, _)
ServerPages(sizes, first) ==
    IF sizes = <<>> THEN <<>>
    ELSE <<[k \in 1..Head(sizes) |-> first + k]>>
         \o ServerPages(Tail(sizes), first + Head(sizes))

PageLayouts == UNION {[1..n -> 0..MaxPageSize] : n \in 0..MaxPages}

\* The result of RetrievePropertiesEx / ContinueRetrievePropertiesEx that
\* carries page i: its objects, and a token while pages remain on the server.
RetrieveResult(pages, i) ==
    IF i > Len(pages) THEN NoResult
    ELSE [held |-> TRUE, objects |-> pages[i],
          token |-> IF i < Len(pages) THEN i ELSE 0]

\* _get_token, line 405.
get_token(retrieve_result) == retrieve_result.token

\* WithRetrieval.__init__ and __enter__, lines 449-455.
WithRetrieval(pages) ==
    [pc |-> "with", pages |-> pages, retrieve_result |-> RetrieveResult(pages, 1),
     gen |-> "created", pos |-> 0, yielded |-> <<>>, calls |-> <<>>,
     result |-> NoOutcome]

\* One entry of the log of calls: the function or server method called, the
\* result held at the call, how many objects had been yielded, what came back.
RetrievalCall(name, r, out) ==
    [op |-> name, held |-> r.retrieve_result, yielded |-> Len(r.yielded), out |-> out]

\* The generator is not finished and control is in it or can enter it.
GeneratorLive(r) == r.pc = "with" /\ r.gen \in {"created", "suspended", "running"}

\* The consumer has control: the body of the with statement may end here.
ConsumerHasControl(r) ==
    r.pc = "with" /\ r.gen \in {"created", "suspended", "finished", "raised"}

ExitCancelsNever(retrieve_result) == FALSE

\* WithRetrieval.__exit__, line 458: is cancel_retrieval called.
ExitCancels(retrieve_result) == retrieve_result.held

\* WithRetrieval.__iter__, lines 463-464: the next object of the held page
\* is yielded.
RetrievalYield ==
    /\ GeneratorLive(retrieval)
    /\ retrieval.retrieve_result.held
    /\ retrieval.pos < Len(retrieval.retrieve_result.objects)
    /\ retrieval' = [retrieval EXCEPT
           !.gen = "suspended", !.pos = @ + 1,
           !.yielded = Append(@, retrieval.retrieve_result.objects[retrieval.pos + 1])]
    /\ UNCHANGED <<rvars, svars, pvars, fvars, mvars, handle, transfer>>

\* WithRetrieval.__iter__, lines 465-466, and continue_retrieval, lines
\* 430-433: the for loop over the held page is over; with a token the server
\* is asked for the next page, without one the result is None.
RetrievalContinue ==
    /\ GeneratorLive(retrieval)
    /\ retrieval.retrieve_result.held
    /\ retrieval.pos = Len(retrieval.retrieve_result.objects)
    /\ LET token == get_token(retrieval.retrieve_result)
           called == Append(retrieval.calls,
                            RetrievalCall("continue_retrieval", retrieval, NoOutcome))
       IN IF token # 0
          THEN \/ retrieval' = [retrieval EXCEPT
                     !.gen = "running", !.pos = 0,
                     !.retrieve_result = RetrieveResult(retrieval.pages, token + 1),
                     !.calls = Append(called,
                         RetrievalCall("ContinueRetrievePropertiesEx", retrieval,
                                       Return("page")))]
               \/ \E excep \in {Raise("VimFaultException", <<>>),
                                Raise("VimConnectionException", <<>>)} :
                    retrieval' = [retrieval EXCEPT
                        !.gen = "raised", !.result = excep,
                        !.calls = Append(called,
                            RetrievalCall("ContinueRetrievePropertiesEx", retrieval,
                                          excep))]
          ELSE retrieval' = [retrieval EXCEPT
                   !.gen = "running", !.pos = 0, !.retrieve_result = NoResult,
                   !.calls = called]
    /\ UNCHANGED <<rvars, svars, pvars, fvars, mvars, handle, transfer>>

\* WithRetrieval.__iter__, line 462: no result is held, the loop and the
\* iteration end.
RetrievalStop ==
    /\ GeneratorLive(retrieval)
    /\ ~retrieval.retrieve_result.held
    /\ retrieval' = [retrieval EXCEPT !.gen = "finished"]
    /\ UNCHANGED <<rvars, svars, pvars, fvars, mvars, handle, transfer>>

\* WithRetrieval.__exit__, lines 457-459, and cancel_retrieval, lines
\* 416-419: the body of the with statement has ended, normally or not.
RetrievalExit ==
    /\ ConsumerHasControl(retrieval)
    /\ LET token == get_token(retrieval.retrieve_result)
           called == Append(retrieval.calls,
                            RetrievalCall("cancel_retrieval", retrieval, NoOutcome))
       IN IF ExitCancels(retrieval.retrieve_result)
          THEN IF token # 0
               THEN \E out \in {Return("None"), Raise("VimFaultException", <<>>)} :
                      retrieval' = [retrieval EXCEPT
                          !.pc = "exited",
                          !.result = IF out.kind = "raise" THEN out ELSE @,
                          !.calls = Append(called,
                              RetrievalCall("CancelRetrievePropertiesEx", retrieval, out))]
               ELSE retrieval' = [retrieval EXCEPT !.pc = "exited", !.calls = called]
          ELSE retrieval' = [retrieval EXCEPT !.pc = "exited"]
    /\ UNCHANGED <<rvars, svars, pvars, fvars, mvars, handle, transfer>>

RetrievalNext ==
    \/ RetrievalYield
    \/ RetrievalContinue
    \/ RetrievalStop
    \/ RetrievalExit

\* A WithRetrieval context has been entered with the first result.
RetrievalInit ==
    /\ retrieval \in {WithRetrieval(ServerPages(sizes, 0)) : sizes \in PageLayouts}
    /\ handle = NoHandle
    /\ transfer = NoTransfer
    /\ registry = FaultClassesRegistry
    /\ fcall = NoCall
    /\ pbm = <<>>
    /\ pbm_wsdl_loc = "None"
    /\ vim_cookie = 0
    /\ retry = RetryDecorator(-1, 10, 60, {})
    /\ rstate = "idle"
    /\ rcalls = 0
    /\ rhist = <<>>
    /\ rresult = NoOutcome
    /\ rslept = <<>>
    /\ pkind = "none"
    /\ pstate = "idle"
    /\ phist = <<>>
    /\ perror = "None"
    /\ presult = NoOutcome
    /\ api_retry_count = 0
    /\ session_id = 0
    /\ session_username = 0
    /\ keys = 0
    /\ srv = {}
    /\ lock = 0
    /\ csretry = CreateSessionDecorator
    /\ pc = [t \in Threads |-> "idle"]
    /\ op = [t \in Threads |-> "none"]
    /\ cont = [t \in Threads |-> "none"]
    /\ iaretry = [t \in Threads |-> InvokeApiDecorator]
    /\ saved = [t \in Threads |-> NoOutcome]
    /\ result = [t \in Threads |-> NoOutcome]
    /\ trace = [t \in Threads |-> <<>>]
    /\ faults = 0
    /\ ops = 0
    /\ scenario = "single"


SpecRetrieval == RetrievalInit /\ [][RetrievalNext]_vars

\* ----------------------------------------------------------- claims C1, C2
Retryable(out) == out.kind = "raise" /\ Catches(retry.exceptions, out.cls)

AlwaysRetryable == \A i \in 1..Len(rhist) : Retryable(rhist[i])

\* C1: for every N >= 0, a call of a function wrapped by
\* RetryDecorator(max_retry_count=N) whose operation raises a retryable
\* exception on every invocation invokes it exactly N+1 times and then
\* propagates the most recent exception.
C1_RetryBound ==
    (rstate = "raised" /\ retry.max_retry_count >= 0 /\ AlwaysRetryable)
        => /\ Len(rhist) = retry.max_retry_count + 1
           /\ rresult = rhist[Len(rhist)]

\* C2: an invocation that raises an exception outside the retryable set is the
\* last one of its call, and that exception is what the caller gets; when it
\* is the first invocation the operation is invoked exactly once.
C2_NonRetryableImmediate ==
    \A i \in 1..Len(rhist) :
        (rhist[i].kind = "raise" /\ ~Retryable(rhist[i]))
            => /\ i = Len(rhist)
               /\ rstate = "raised"
               /\ rresult = rhist[i]

C2_Witness ==
    /\ rstate = "raised"
    /\ Len(rhist) = 1
    /\ ~Retryable(rhist[1])
    /\ retry.max_retry_count = -1
    /\ retry.exceptions # {}

\* ---------------------------------------------------- claims C3 .. C10
\* Helpers over a thread's trace.
EvAt(t, i) == trace[t][i]

IsFault(out) == out.kind = "raise" /\ IsInstance(out.cls, "VimFaultException")

IsNotAuthenticated(out) == IsFault(out) /\ Contains(out.fault_list, NOT_AUTHENTICATED)

CallIdx(t) == {i \in 1..Len(trace[t]) : EvAt(t, i).ev = "call"}

NumCalls(t) == Cardinality(CallIdx(t))

RaisingCalls(t) == {i \in CallIdx(t) : EvAt(t, i).out.kind = "raise"}

SleepsBefore(t, k) == Cardinality({j \in 1..k : EvAt(t, j).ev = "sleep"})

\* Attempt i of invoke_api raised NotAuthenticated and the liveness check that
\* followed answered with `answer`.
NotAuthThenLive(t, i, answer) ==
    /\ op[t] = "invoke_api"
    /\ EvAt(t, i).ev = "call"
    /\ IsNotAuthenticated(EvAt(t, i).out)
    /\ Len(trace[t]) >= i + 2
    /\ EvAt(t, i + 2).ev = "is_active"
    /\ EvAt(t, i + 2).out = Return(answer)

\* k is the end of the first _create_session after position i.
FirstCreateEnd(t, i, k) ==
    /\ EvAt(t, k).ev = "create_end"
    /\ \A m \in (i + 1)..(k - 1) : EvAt(t, m).ev # "create_end"

\* C3 as stated: after NotAuthenticated on an inactive session and a refresh
\* that returned, invoke_api does not end without invoking the target again,
\* whatever api_retry_count is.
C3_Original ==
    \A t \in Threads : \A i \in 1..Len(trace[t]) :
        NotAuthThenLive(t, i, "False") =>
            \A k \in (i + 3)..Len(trace[t]) :
                (FirstCreateEnd(t, i, k) /\ EvAt(t, k).out.kind = "return"
                   /\ pc[t] = "done")
                    => \E j \in (k + 1)..Len(trace[t]) : EvAt(t, j).ev = "call"

\* C3 amended: after NotAuthenticated on an inactive session invoke_api calls
\* _create_session; when that returns, it sleeps and invokes the target again
\* if the call has used fewer than api_retry_count retries (or api_retry_count
\* is -1), and otherwise ends raising VimConnectionException; an invocation
\* that returns a value ends invoke_api with that value.
C3_RefreshThenRetry ==
    \A t \in Threads :
        /\ \A i \in 1..Len(trace[t]) :
             NotAuthThenLive(t, i, "False") =>
               /\ Len(trace[t]) >= i + 3
               /\ EvAt(t, i + 3).ev = "create_begin"
               /\ \A k \in (i + 3)..Len(trace[t]) :
                    (FirstCreateEnd(t, i, k) /\ EvAt(t, k).out.kind = "return") =>
                       IF api_retry_count = -1 \/ SleepsBefore(t, k) < api_retry_count
                       THEN /\ Len(trace[t]) > k
                            /\ EvAt(t, k + 1).ev = "sleep"
                            /\ IF Len(trace[t]) = k + 1
                               THEN pc[t] \in {"ia_sleep", "ia_call"}
                               ELSE EvAt(t, k + 2).ev = "call"
                       ELSE /\ Len(trace[t]) = k
                            /\ pc[t] = "done"
                            /\ result[t].kind = "raise"
                            /\ result[t].cls = "VimConnectionException"
        /\ (op[t] = "invoke_api" /\ Len(trace[t]) > 0
              /\ EvAt(t, Len(trace[t])).ev = "call"
              /\ EvAt(t, Len(trace[t])).out.kind = "return")
               => /\ pc[t] = "done"
                  /\ result[t] = EvAt(t, Len(trace[t])).out

C3_Witness ==
    \E t \in Threads :
        /\ pc[t] = "done"
        /\ result[t] = Return("RESULT")
        /\ \E i \in 1..Len(trace[t]) :
             /\ NotAuthThenLive(t, i, "False")
             /\ \E k \in (i + 3)..Len(trace[t]) :
                  /\ FirstCreateEnd(t, i, k)
                  /\ EvAt(t, k).out.kind = "return"
                  /\ EvAt(t, k - 1).ev = "Login"
                  /\ Len(trace[t]) = k + 2

\* C4: after NotAuthenticated with a liveness check answering true, invoke_api
\* ends at once returning []: no _create_session, no Login, no second
\* invocation of the target.
C4_EmptyResponse ==
    \A t \in Threads : \A i \in 1..Len(trace[t]) :
        NotAuthThenLive(t, i, "True") =>
            /\ Len(trace[t]) = i + 2
            /\ pc[t] = "done"
            /\ result[t] = Return("[]")

C4_Witness ==
    \E t \in Threads :
        /\ Len(trace[t]) = 3
        /\ NotAuthThenLive(t, 1, "True")
        /\ pc[t] = "done"
        /\ result[t] = Return("[]")
        /\ api_retry_count > 0

\* C5: K callers of _create_session on a session that has expired, with no
\* RPC failing and the new session staying active: one Login in total, and
\* session_id is the key that Login returned once all K have returned.
CreateSessionCallers == {t \in Threads : op[t] = "_create_session"}

AllEvents == UNION {{<<t, i>> : i \in 1..Len(trace[t])} : t \in Threads}

LoginEvents == {e \in AllEvents : EvAt(e[1], e[2]).ev = "Login"}

ExpiredSessionScenario ==
    /\ CreateSessionCallers # {}
    /\ \A t \in Threads : (t \in CreateSessionCallers /\ pc[t] = "done") \/ op[t] = "none"
    /\ ops = Cardinality(CreateSessionCallers)
    /\ faults = 0
    /\ keys - Cardinality(LoginEvents) = 1
    /\ \A e \in AllEvents :
         (EvAt(e[1], e[2]).ev = "is_active" /\ EvAt(e[1], e[2]).out = Return("True"))
            => EvAt(e[1], e[2]).sid # 1
    /\ \A k \in 2..keys : k \in srv

C5_SingleLogin ==
    ExpiredSessionScenario =>
        /\ Cardinality(LoginEvents) = 1
        /\ \A e \in LoginEvents : session_id = EvAt(e[1], e[2]).sid
        /\ \A t \in CreateSessionCallers : result[t] = Return("None")

C5_Witness ==
    /\ ExpiredSessionScenario
    /\ Cardinality(CreateSessionCallers) = NumThreads
    /\ Cardinality(LoginEvents) = 1
    /\ \E t \in CreateSessionCallers : \A i \in 1..Len(trace[t]) : EvAt(t, i).ev # "Login"

\* C6: an invocation raising a VimFaultException without NotAuthenticated is
\* the last event of invoke_api (no liveness check, no refresh, no further
\* invocation) and invoke_api raises; as the first invocation it is the only one.
C6_OtherFaultNotRetried ==
    \A t \in Threads : \A i \in 1..Len(trace[t]) :
        (op[t] = "invoke_api" /\ EvAt(t, i).ev = "call"
           /\ IsFault(EvAt(t, i).out) /\ ~IsNotAuthenticated(EvAt(t, i).out))
            => /\ Len(trace[t]) = i
               /\ pc[t] = "done"
               /\ result[t].kind = "raise"
               /\ IsInstance(result[t].cls, "VimException")

C6_Witness ==
    \E t \in Threads :
        /\ op[t] = "invoke_api"
        /\ pc[t] = "done"
        /\ trace[t] = <<Event("call", Raise("VimFaultException", <<"FileNotFound">>), 0)>>
        /\ result[t] = Raise("FileNotFoundException", <<>>)
        /\ api_retry_count = MaxRetry

\* C7: with api_retry_count = N >= 0, a target that raises only
\* VimConnectionException / VimSessionOverLoadException before returning, and
\* liveness checks that all answer true: at most N+1 invocations; invoke_api
\* returns the value of invocation k+1 after k <= N failures, and raises the
\* error of invocation N+1 otherwise.
ConnOrOverload(out) ==
    /\ out.kind = "raise"
    /\ out.cls \in {"VimConnectionException", "VimSessionOverLoadException"}

TransientScenario(t) ==
    /\ op[t] = "invoke_api"
    /\ api_retry_count >= 0
    /\ \A i \in 1..Len(trace[t]) :
         /\ EvAt(t, i).ev = "call" =>
              (EvAt(t, i).out.kind = "return" \/ ConnOrOverload(EvAt(t, i).out))
         /\ EvAt(t, i).ev = "is_active" => EvAt(t, i).out = Return("True")

C7_RetryBudget ==
    \A t \in Threads :
        TransientScenario(t) =>
            /\ NumCalls(t) <= api_retry_count + 1
            /\ \A i \in 1..Len(trace[t]) :
                 EvAt(t, i).ev \notin {"create_begin", "Login"}
            /\ pc[t] = "done" =>
                 LET last == EvAt(t, Len(trace[t])) IN
                   IF result[t].kind = "return"
                   THEN /\ last.ev = "call"
                        /\ result[t] = last.out
                        /\ Cardinality(RaisingCalls(t)) <= api_retry_count
                        /\ NumCalls(t) = Cardinality(RaisingCalls(t)) + 1
                   ELSE /\ NumCalls(t) = api_retry_count + 1
                        /\ RaisingCalls(t) = CallIdx(t)
                        /\ \E i \in CallIdx(t) :
                             /\ \A j \in CallIdx(t) : j <= i
                             /\ result[t] = EvAt(t, i).out

C7_Witness ==
    \E t \in Threads :
        /\ TransientScenario(t)
        /\ api_retry_count = 2
        /\ pc[t] = "done"
        /\ result[t] = Return("RESULT")
        /\ NumCalls(t) = 3
        /\ \E i, j \in CallIdx(t) :
             /\ EvAt(t, i).out.cls = "VimConnectionException"
             /\ EvAt(t, j).out.cls = "VimSessionOverLoadException"

\* C8: is_current_session_active never raises: whatever the SessionIsActive
\* RPC did, it returns a boolean, False when the RPC raised.
C8_LivenessNeverRaises ==
    \A t \in Threads : \A i \in 1..Len(trace[t]) :
        EvAt(t, i).ev = "is_active" =>
            /\ EvAt(t, i).out.kind = "return"
            /\ EvAt(t, i - 1).out.kind = "raise" => EvAt(t, i).out = Return("False")
            /\ EvAt(t, i - 1).out.kind = "return" => EvAt(t, i).out = EvAt(t, i - 1).out

\* C9: within one invoke_api, an attempt that finds the session inactive is
\* followed by a whole _create_session (begun and ended, every Login of the
\* thread inside it) before the target is invoked again, and the thread never
\* invokes the target while it holds the session lock.
RefreshTriggered(t, i) ==
    /\ op[t] = "invoke_api"
    /\ i > 2
    /\ EvAt(t, i).ev = "is_active"
    /\ EvAt(t, i).out = Return("False")
    /\ EvAt(t, i - 2).ev = "call"

C9_RefreshBeforeRetry ==
    \A t \in Threads :
        /\ pc[t] \in {"ia_call", "ia_sleep", "ia_na_live", "ia_conn_live"} => lock # t
        /\ \A i \in 1..Len(trace[t]) : \A j \in (i + 1)..Len(trace[t]) :
             (RefreshTriggered(t, i) /\ EvAt(t, j).ev = "call"
                /\ \A m \in (i + 1)..(j - 1) : EvAt(t, m).ev # "call")
                 => \E b, e \in (i + 1)..(j - 1) :
                      /\ b < e
                      /\ EvAt(t, b).ev = "create_begin"
                      /\ EvAt(t, e).ev = "create_end"
                      /\ \A m \in (i + 1)..(j - 1) :
                           /\ EvAt(t, m).ev \in {"create_begin", "create_end"}
                                => m \in {b, e}
                           /\ EvAt(t, m).ev \in {"Login", "locked", "SessionIsActive",
                                                 "cs_sleep"} => (b < m /\ m < e)

C9_Witness ==
    \E t \in Threads : \E i \in 1..Len(trace[t]) :
        /\ RefreshTriggered(t, i)
        /\ pc[t] = "ia_call"
        /\ EvAt(t, Len(trace[t])).ev = "sleep"
        /\ \E m \in (i + 1)..Len(trace[t]) :
             EvAt(t, m).ev = "Login" /\ EvAt(t, m).out.kind = "return"
        /\ \E m \in (i + 1)..Len(trace[t]) : EvAt(t, m).ev = "cs_sleep"

\* C10: a Login that raises a fault ends _create_session at once with that
\* fault (no sleep, no further Login of that call), and _create_session sleeps
\* for a retry only right after a VimConnectionException.
C10_LoginFaultNotRetried ==
    \A t \in Threads : \A i \in 1..Len(trace[t]) :
        /\ (EvAt(t, i).ev = "Login" /\ IsFault(EvAt(t, i).out))
             => /\ Len(trace[t]) > i
                /\ EvAt(t, i + 1) = Event("create_end", EvAt(t, i).out, 0)
                /\ op[t] = "_create_session"
                     => (pc[t] = "done" /\ result[t] = EvAt(t, i).out)
        /\ EvAt(t, i).ev = "cs_sleep"
             => (i > 1 /\ EvAt(t, i - 1).out.kind = "raise"
                       /\ EvAt(t, i - 1).out.cls = "VimConnectionException")

C10_Witness ==
    \E t \in Threads :
        /\ op[t] = "_create_session"
        /\ pc[t] = "done"
        /\ IsFault(result[t])
        /\ Cardinality({i \in 1..Len(trace[t]) : EvAt(t, i).ev = "Login"}) = 1
        /\ EvAt(t, Len(trace[t]) - 1).ev = "Login"

\* ---------------------------------------------------- claims C11 .. C20
\* The events of thread t's trace that are RPCs of _create_session.
RpcIdx(t) == {i \in 1..Len(trace[t]) : EvAt(t, i).ev \in {"SessionIsActive", "Login"}}

FailedRpcIdx(t) == {i \in RpcIdx(t) : EvAt(t, i).out.kind = "raise"}

CsSleepIdx(t) == {i \in 1..Len(trace[t]) : EvAt(t, i).ev = "cs_sleep"}

GoodLoginIdx(t) ==
    {i \in 1..Len(trace[t]) : EvAt(t, i).ev = "Login" /\ EvAt(t, i).out.kind = "return"}

\* A call of _create_session whose RPCs, when they failed, raised
\* VimConnectionException.
OnlyConnectionFailures(t) ==
    /\ op[t] = "_create_session"
    /\ \A i \in FailedRpcIdx(t) : EvAt(t, i).out.cls = "VimConnectionException"

C11_Safety ==
    \A t \in Threads :
        OnlyConnectionFailures(t) =>
            /\ Cardinality(CsSleepIdx(t)) = Cardinality(FailedRpcIdx(t))
            /\ pc[t] = "done" =>
                 /\ result[t] = Return("None")
                 /\ \A i \in GoodLoginIdx(t) : session_id = EvAt(t, i).sid

\* C11: a call of _create_session whose RPCs fail k times, each time with
\* VimConnectionException, sleeps and retries k times whatever k is, never ends
\* raising, and once a Login has succeeded has returned with session_id set to
\* the key of that Login; every call of _create_session eventually ends.
C11_UnboundedConnectionRetry ==
    /\ []C11_Safety
    /\ \A t \in Threads :
         (op[t] = "_create_session" /\ pc[t] # "done") ~> (pc[t] = "done")

C11_Witness ==
    \E t \in Threads :
        /\ OnlyConnectionFailures(t)
        /\ pc[t] = "done"
        /\ Cardinality(FailedRpcIdx(t)) = MaxFaults
        /\ GoodLoginIdx(t) # {}
        /\ result[t] = Return("None")
        /\ session_id = keys

\* Attempt i of invoke_api raised VimConnectionException.
ConnectionFailedCall(t, i) ==
    /\ op[t] = "invoke_api"
    /\ EvAt(t, i).ev = "call"
    /\ EvAt(t, i).out.kind = "raise"
    /\ EvAt(t, i).out.cls = "VimConnectionException"

\* The retry budget of the invoke_api in progress is not used up at position i.
BudgetLeft(t, i) == api_retry_count = -1 \/ SleepsBefore(t, i) < api_retry_count

CreateEvents == {"locked", "SessionIsActive", "is_active", "Login", "cs_sleep"}

\* C12: an attempt that raised VimConnectionException is followed by one
\* liveness check. When it answers false, _create_session is called and ends
\* before the retry decorator sleeps or gives up; when it answers true (and
\* whenever it does not answer false) there is no _create_session and the
\* exception goes to the retry decorator, which sleeps for a retry or, with
\* the budget used up, raises it.
C12_ConnectionLiveness ==
    \A t \in Threads : \A i \in 1..Len(trace[t]) :
        ConnectionFailedCall(t, i) =>
            IF Len(trace[t]) = i
            THEN pc[t] = "ia_conn_live"
            ELSE /\ Len(trace[t]) >= i + 2
                 /\ EvAt(t, i + 1).ev = "SessionIsActive"
                 /\ EvAt(t, i + 2).ev = "is_active"
                 /\ IF EvAt(t, i + 2).out = Return("False")
                    THEN /\ Len(trace[t]) >= i + 3
                         /\ EvAt(t, i + 3).ev = "create_begin"
                         /\ \/ /\ \A m \in (i + 4)..Len(trace[t]) :
                                     EvAt(t, m).ev \in CreateEvents
                               /\ pc[t] \in {"cs_lock", "cs_live", "cs_login", "cs_sleep"}
                            \/ \E k \in (i + 4)..Len(trace[t]) :
                                  /\ EvAt(t, k).ev = "create_end"
                                  /\ \A m \in (i + 4)..(k - 1) :
                                        EvAt(t, m).ev \in CreateEvents
                    ELSE /\ Len(trace[t]) > i + 2 => EvAt(t, i + 3).ev = "sleep"
                         /\ EvAt(t, i + 2).out = Return("True") =>
                              IF BudgetLeft(t, i)
                              THEN /\ Len(trace[t]) > i + 2
                                   /\ pc[t] # "done" \/ Len(trace[t]) > i + 3
                              ELSE /\ Len(trace[t]) = i + 2
                                   /\ pc[t] = "done"
                                   /\ result[t] = EvAt(t, i).out

C12_Witness ==
    \E t \in Threads : \E i, j \in 1..Len(trace[t]) :
        /\ i + 3 < j
        /\ ConnectionFailedCall(t, i)
        /\ EvAt(t, i + 2).out = Return("True")
        /\ EvAt(t, i + 3).ev = "sleep"
        /\ ConnectionFailedCall(t, j)
        /\ Len(trace[t]) > j + 3
        /\ EvAt(t, j + 2).out = Return("False")
        /\ EvAt(t, j + 3).ev = "create_begin"
        /\ EvAt(t, Len(trace[t])).ev = "create_end"
        /\ EvAt(t, Len(trace[t]) - 1).ev = "Login"
        /\ pc[t] = "done"

\* The exception with which the attempt of invoke_api that ended at position k
\* of the trace left _invoke_api: the one retried, or the one raised.
AttemptError(t, k) ==
    IF Len(trace[t]) > k THEN EvAt(t, k + 1).out ELSE result[t]

AttemptEnded(t, k) ==
    \/ Len(trace[t]) > k /\ EvAt(t, k + 1).ev = "sleep"
    \/ Len(trace[t]) = k /\ pc[t] = "done"

\* C13 as stated: an attempt that raised NotAuthenticated on an inactive
\* session always leaves _invoke_api with a VimConnectionException whose cause
\* is the NotAuthenticated fault.
C13_Original ==
    \A t \in Threads : \A i \in 1..Len(trace[t]) :
        NotAuthThenLive(t, i, "False") =>
            \A k \in (i + 3)..Len(trace[t]) :
                (FirstCreateEnd(t, i, k) /\ AttemptEnded(t, k))
                    => AttemptError(t, k) = RaiseFrom("VimConnectionException", EvAt(t, i).out)

\* C13 amended: such an attempt leaves _invoke_api with a
\* VimConnectionException whose cause is the NotAuthenticated fault when the
\* _create_session it called returned, and with the exception of
\* _create_session when that raised; invoke_api never raises a fault with
\* NotAuthenticated in its fault list.
C13_ExpiryAsConnectionFailure ==
    \A t \in Threads :
        /\ \A i \in 1..Len(trace[t]) :
             NotAuthThenLive(t, i, "False") =>
               \A k \in (i + 3)..Len(trace[t]) :
                   (FirstCreateEnd(t, i, k) /\ AttemptEnded(t, k)) =>
                      AttemptError(t, k) =
                         IF EvAt(t, k).out.kind = "return"
                         THEN RaiseFrom("VimConnectionException", EvAt(t, i).out)
                         ELSE EvAt(t, k).out
        /\ (op[t] = "invoke_api" /\ pc[t] = "done") => ~IsNotAuthenticated(result[t])
        /\ \A i \in 1..Len(trace[t]) :
             EvAt(t, i).ev = "sleep" => ~IsNotAuthenticated(EvAt(t, i).out)

C13_Witness ==
    \E t \in Threads :
        /\ Len(trace[t]) > 4
        /\ NotAuthThenLive(t, 1, "False")
        /\ FirstCreateEnd(t, 1, Len(trace[t]))
        /\ EvAt(t, Len(trace[t])).out = Return("None")
        /\ pc[t] = "done"
        /\ result[t] = RaiseFrom("VimConnectionException",
                                 Raise("VimFaultException", <<NOT_AUTHENTICATED>>))

\* C14: every call of a function wrapped by a RetryDecorator starts with retry
\* count 0 and sleep time 0, and during the call the two count the retries of
\* that call alone.
C14_CountersLocalToCall ==
    rstate \in {"run", "sleep", "returned", "raised"} =>
        /\ retry.retry_count = Len(rslept)
        /\ retry.sleep_time = Len(rslept) * retry.inc_sleep_time

Min(a, b) == IF a < b THEN a ELSE b

SleepPcs == {"ia_sleep", "cs_sleep"}

RpcPcs == {"ia_call", "ia_na_live", "ia_conn_live", "cs_live", "cs_login"}

\* The body of _create_session: the liveness re-check and Login.
BodyPcs == {"cs_live", "cs_login"}

\* C16 as stated: a thread that holds the session lock is at no suspension
\* point, be it a sleep or an RPC.
C16_Original ==
    \A t \in Threads : lock = t => pc[t] \notin (SleepPcs \cup RpcPcs)

\* C16 amended: a thread that holds the session lock is in no retry sleep and
\* in no RPC of invoke_api; the RPCs it is suspended in while holding the lock
\* are the SessionIsActive and the Login of _create_session, and other threads
\* do take steps meanwhile.
C16_NoSleepUnderLock ==
    \A t \in Threads :
        /\ pc[t] \in SleepPcs \cup (RpcPcs \ BodyPcs) => lock # t
        /\ lock = t => pc[t] \in BodyPcs

C16_Witness ==
    \E t, u \in Threads :
        /\ lock = t
        /\ pc[t] = "cs_login"
        /\ pc[u] = "cs_sleep"
        /\ Len(trace[t]) > 0
        /\ EvAt(t, Len(trace[t])).ev = "is_active"

\* C17: at most one thread is in the body of _create_session, and it is the
\* holder of the lock; a thread enters the body (and reads the session) only
\* by taking the lock when no thread holds it.
C17_Inv ==
    /\ \A t, u \in Threads : (pc[t] \in BodyPcs /\ pc[u] \in BodyPcs) => t = u
    /\ \A t \in Threads : pc[t] \in BodyPcs <=> lock = t

C17_OneCallerInBody ==
    /\ []C17_Inv
    /\ [][\A t \in Threads :
            (pc[t] \notin BodyPcs /\ pc'[t] \in BodyPcs) =>
               /\ pc[t] = "cs_lock"
               /\ lock = 0
               /\ \A u \in Threads : pc[u] \notin BodyPcs]_vars

C17_Witness ==
    \E t, u \in Threads :
        /\ t # u
        /\ pc[t] = "cs_login"
        /\ lock = t
        /\ pc[u] = "cs_lock"
        /\ EvAt(t, 1).ev = "create_begin"
        /\ trace[u] = <<Event("create_begin", NoOutcome, 0)>>

\* Helpers over the reads of a wait.
ReadIdx(prop) == {i \in 1..Len(phist) : phist[i].prop = prop}

LastRead == phist[Len(phist)]

\* Every status read so far returned a task or lease state.
StatesReturned(prop) ==
    \A i \in ReadIdx(prop) : phist[i].out.kind = "return" /\ phist[i].out.val # "[]"

\* C18: while the polls of wait_for_task return states, every state before the
\* last one is 'queued' or 'running'; after a 'queued' or 'running' the wait
\* goes on, after 'success' it has returned that poll's task info, and after
\* any other state it has raised (the translation of the task's error when the
\* task info has one); it ends in no other way, so the first state that is
\* neither 'queued' nor 'running' is the last one polled.
C18_TaskPolling ==
    (pkind = "task" /\ StatesReturned("info")) =>
        /\ \A i \in 1..(Len(phist) - 1) : phist[i].out.val \in {"queued", "running"}
        /\ Len(phist) = 0 => pstate \in {"sleep", "poll"}
        /\ Len(phist) > 0 =>
             CASE LastRead.out.val \in {"queued", "running"} ->
                    pstate \in {"sleep", "poll"}
               [] LastRead.out.val = "success" ->
                    pstate = "returned" /\ presult = LastRead.out
               [] OTHER ->
                    /\ pstate = "raised"
                    /\ presult.kind = "raise"
                    /\ perror # "missing" => presult = translate_fault(perror)

C18_Witness ==
    /\ pkind = "task"
    /\ Len(phist) = 3
    /\ phist[1].out = Return("queued")
    /\ phist[2].out = Return("running")
    /\ phist[3].out = Return("success")
    /\ pstate = "returned"
    /\ presult = Return("success")

\* C19: while the state polls of wait_for_lease_ready return states, every
\* state before the last one is 'initializing'; after 'ready' the wait has
\* returned, after 'error' it reads the error property once and has then
\* raised, after any other state it has raised VimException; the error
\* property is read at no other time and the state is not polled again.
C19_LeasePolling ==
    (pkind = "lease" /\ StatesReturned("state")) =>
        /\ \A i \in ReadIdx("error") :
             /\ i = Len(phist)
             /\ i > 1
             /\ phist[i - 1] = PollRead("state", Return("error"))
        /\ \A i \in 1..(Len(phist) - 1) :
             phist[i].prop = "state" /\ i + 1 \in ReadIdx("state")
                => phist[i].out.val = "initializing"
        /\ Len(phist) = 0 => pstate \in {"sleep", "poll"}
        /\ Len(phist) > 0 =>
             CASE LastRead.prop = "error" ->
                    pstate = "raised" /\ presult.kind = "raise"
               [] LastRead.prop = "state" /\ LastRead.out.val = "initializing" ->
                    pstate \in {"sleep", "poll"}
               [] LastRead.prop = "state" /\ LastRead.out.val = "ready" ->
                    pstate = "returned" /\ presult = Return("None")
               [] LastRead.prop = "state" /\ LastRead.out.val = "error" ->
                    pstate = "error_read"
               [] OTHER ->
                    pstate = "raised" /\ presult = Raise("VimException", <<>>)

C19_Witness ==
    /\ pkind = "lease"
    /\ phist = <<PollRead("state", Return("initializing")),
                 PollRead("state", Return("error")),
                 PollRead("error", Return("error_msg"))>>
    /\ pstate = "raised"
    /\ IsInstance(presult.cls, "VimException")

\* C20: a status read that raises is the last invoke_api call of the wait, and
\* the wait has raised that exception.
C20_ReadErrorPropagates ==
    \A i \in ReadIdx("info") \cup ReadIdx("state") :
        phist[i].out.kind = "raise" =>
            /\ i = Len(phist)
            /\ pstate = "raised"
            /\ presult = phist[i].out

C20_Witness ==
    /\ pkind = "task"
    /\ phist = <<PollRead("info", Raise("VimException", <<>>))>>
    /\ pstate = "raised"
    /\ presult = Raise("VimException", <<>>)

\* ------------------------------------------------------------- claim C21
\* C21: within one wait_for_task or wait_for_lease_ready call the polls are
\* strictly sequential. A status read is made only at the poll position, it
\* adds exactly one read to the history and the loop leaves the poll position
\* with it, so no second poll starts before the read has returned; and the
\* poll position is entered only by the end of a wait of the interval.
C21_SequentialPolls ==
    [][ /\ (pstate' = "poll" /\ pstate # "poll") => pstate = "sleep"
        /\ (phist' # phist) =>
              /\ pstate \in {"poll", "error_read"}
              /\ pstate' # pstate
              /\ Len(phist') = Len(phist) + 1
              /\ SubSeq(phist', 1, Len(phist)) = phist
        /\ (pstate = "poll" /\ pstate' # "poll") => phist' # phist ]_vars

\* A task wait that has ended after three polls.
C21_Witness ==
    /\ pkind = "task"
    /\ pstate = "returned"
    /\ Len(phist) = 3

\* ------------------------------------------------------------- claim C22
\* The fault an invoke_api call ended with was not a session fault and had a
\* registered first fault name.
C22_Registered ==
    /\ fcall.op = "invoke_api"
    /\ fcall.exc.fault_list # <<>>
    /\ fcall.exc.fault_list[1] \in DOMAIN fcall.before

\* C22 as stated: the exception of the registered class carries the original
\* message and the original details.
C22_Original ==
    /\ C22_Registered =>
         /\ fcall.raised.cls = fcall.before[fcall.exc.fault_list[1]]
         /\ fcall.raised.message = fcall.exc.message
         /\ fcall.raised.details = fcall.exc.details
    /\ (fcall.op = "invoke_api" /\ ~C22_Registered) => fcall.raised = fcall.exc

\* C22: when the target raises a VimFaultException whose fault list is not
\* empty and has no NotAuthenticated, invoke_api raises the class registered
\* for the first fault name, with the original details mapping and with the
\* string form of the original exception as its message: the original message
\* followed by the cause, the fault list and the details when there are any.
\* When the first fault name is not registered or the fault list is empty, it
\* re-raises the original VimFaultException unchanged.
C22_SpecificFault ==
    /\ C22_Registered =>
         /\ fcall.raised.cls = fcall.before[fcall.exc.fault_list[1]]
         /\ SubSeq(fcall.raised.message, 1, Len(fcall.exc.message)) = fcall.exc.message
         /\ fcall.raised.message =
              fcall.exc.message
                \o (IF fcall.exc.cause = <<>> THEN <<>> ELSE <<"Cause:">> \o fcall.exc.cause)
                \o <<"Faults:">> \o fcall.exc.fault_list
                \o (IF fcall.exc.details = <<>> THEN <<>> ELSE <<"Details:">> \o fcall.exc.details)
         /\ fcall.raised.details = fcall.exc.details
    /\ (fcall.op = "invoke_api" /\ ~C22_Registered) => fcall.raised = fcall.exc

\* A fault with details and a registered first name among two was translated.
C22_Witness ==
    /\ C22_Registered
    /\ fcall.exc.fault_list = <<"AlreadyExists", "NotAFile">>
    /\ fcall.exc.details = <<"name", "value">>
    /\ fcall.raised.cls = "AlreadyExistsException"
    /\ fcall.raised.details = <<"name", "value">>

\* ------------------------------------------------------------- claim C27
\* The fault type with SecurityError replaced by NotAuthenticated, namespace
\* prefix kept.
AsNotAuthenticated(fault_type) ==
    CASE fault_type = "SecurityError" -> "NotAuthenticated"
      [] fault_type = "vim25:SecurityError" -> "vim25:NotAuthenticated"
      [] OTHER -> fault_type

\* C27: request_handler reports a fault whose type ends with SecurityError
\* under the name NotAuthenticated: the exception it raises has that name at
\* the fault's place in fault_list, passes the test invoke_api makes for a
\* session fault, and equals the exception raised for the same SOAP fault with
\* the type NotAuthenticated in place of SecurityError.
C27_SecurityErrorAsNotAuthenticated ==
    fcall.op = "request_handler" =>
        /\ Len(fcall.raised.fault_list) = Len(fcall.types)
        /\ \A i \in 1..Len(fcall.types) :
             EndsWith(fcall.types[i], SECURITY_ERROR) =>
                /\ fcall.raised.fault_list[i] = NOT_AUTHENTICATED
                /\ SessionFault(fcall.raised)
        /\ fcall.raised =
             WebFault([i \in 1..Len(fcall.types) |-> AsNotAuthenticated(fcall.types[i])],
                      fcall.raised.details)
        /\ \A i \in 1..Len(fcall.types) :
             fcall.types[i] \in {"FileNotFound", "SecurityErrorFault"} =>
                fcall.raised.fault_list[i] = fcall.types[i]

\* A SOAP fault of type vim25:SecurityError, followed by another fault, was
\* reported.
C27_Witness ==
    /\ fcall.op = "request_handler"
    /\ fcall.types = <<"vim25:SecurityError", "FileNotFound">>
    /\ fcall.raised.fault_list = <<NOT_AUTHENTICATED, "FileNotFound">>
    /\ fcall.raised.details = <<"name", "value">>

\* ------------------------------------------------------------- claim C28
\* C28 as stated: a lookup never fails, gives the registered class for a
\* registered name and a generic error kind, not None, for any other name.
C28_Original ==
    fcall.op \in {"get_fault_class", "legacy_get_fault_class"} =>
        /\ fcall.raised = NoExc
        /\ (fcall.op = "get_fault_class" /\ fcall.name \in DOMAIN fcall.before) =>
             fcall.ret = fcall.before[fcall.name]
        /\ (fcall.op = "get_fault_class" /\ fcall.name \notin DOMAIN fcall.before) =>
             fcall.ret # "None"
        /\ (fcall.op = "legacy_get_fault_class"
              /\ fcall.name \notin DOMAIN LegacyFaultClassesRegistry) =>
             fcall.ret # "None"

\* C28: get_fault_class(name) never fails and returns the class registered for
\* a registered name. For a name that is not registered, get_fault_class of
\* oslo_vmware.exceptions returns None, and get_fault_class of the deprecated
\* package oslo.vmware returns the generic VMwareDriverException.
C28_GetFaultClass ==
    fcall.op \in {"get_fault_class", "legacy_get_fault_class"} =>
        /\ fcall.raised = NoExc
        /\ registry = fcall.before
        /\ (fcall.op = "get_fault_class" /\ fcall.name \in DOMAIN fcall.before) =>
             fcall.ret = fcall.before[fcall.name]
        /\ (fcall.op = "get_fault_class" /\ fcall.name \notin DOMAIN fcall.before) =>
             fcall.ret = "None"
        /\ (fcall.op = "legacy_get_fault_class"
              /\ fcall.name \in DOMAIN LegacyFaultClassesRegistry) =>
             fcall.ret = FaultClassesRegistry[fcall.name]
        /\ (fcall.op = "legacy_get_fault_class"
              /\ fcall.name \notin DOMAIN LegacyFaultClassesRegistry) =>
             fcall.ret = "VMwareDriverException"

\* A name that is not registered was looked up in oslo_vmware.exceptions.
C28_Witness ==
    /\ fcall.op = "get_fault_class"
    /\ fcall.name = "NotAFile"
    /\ fcall.name \notin DOMAIN fcall.before
    /\ fcall.ret = "None"

\* ------------------------------------------------------------- claim C29
\* C29: register_fault_class(name, cls) with cls a subclass of VimException
\* makes get_fault_class(name) return cls, whether or not name was registered
\* before, and changes no other entry of the registry; with a class that is
\* not a subclass of VimException it raises TypeError and leaves the registry
\* as it was.
C29_RegisterFaultClass ==
    fcall.op = "register_fault_class" =>
        IF IsInstance(fcall.cls, "VimException")
        THEN /\ fcall.raised = NoExc
             /\ get_fault_class(fcall.name) = fcall.cls
             /\ DOMAIN registry = DOMAIN fcall.before \cup {fcall.name}
             /\ \A n \in DOMAIN fcall.before \ {fcall.name} :
                  registry[n] = fcall.before[n]
        ELSE /\ fcall.raised.cls = "TypeError"
             /\ registry = fcall.before

\* A class that is not a subclass of VimException was refused for a name that
\* an earlier call had registered.
C29_Witness ==
    /\ fcall.op = "register_fault_class"
    /\ fcall.name = "ValueError"
    /\ fcall.cls = "VimConnectionException"
    /\ fcall.raised.cls = "TypeError"
    /\ "ValueError" \in DOMAIN registry
    /\ registry["ValueError"] = "VimSubClass"
    /\ registry["AlreadyExists"] = "FileNotFoundException"

\* ------------------------------------------------------------- claim C24
\* The places of an event in the trace of a thread.
EvIdx(t, ev) == {i \in 1..Len(trace[t]) : trace[t][i].ev = ev}

\* A direct call of _create_session by t has ended.
DirectCreateEnded(t) ==
    /\ op[t] = "_create_session"
    /\ pc[t] = "done"

\* C24: _create_session is idempotent on a live session. In a call whose first
\* pass finds a session id held and the liveness check true, no Login is
\* issued, session_id stays the id that was checked and the call returns.
\* Every pass of the locked body issues at most one Login. In a call that
\* holds no session id, or whose liveness check answers false, and whose Login
\* returns, exactly one Login is issued and session_id is the key it
\* returned, a key the server had not issued before.
C24_Idempotent ==
    \A t \in Threads :
        DirectCreateEnded(t) =>
            /\ (Len(trace[t]) >= 4 /\ trace[t][4] = Event("is_active", Return("True"), trace[t][4].sid)) =>
                  /\ EvIdx(t, "Login") = {}
                  /\ trace[t][4].sid # 0
                  /\ session_id = trace[t][4].sid
                  /\ result[t] = Return("None")
            /\ \A i, j \in EvIdx(t, "Login") :
                  i < j => \E k \in EvIdx(t, "locked") : i < k /\ k < j
            /\ ( /\ \/ trace[t][3].ev = "Login"
                    \/ (Len(trace[t]) >= 4 /\ trace[t][4].ev = "is_active"
                          /\ trace[t][4].out = Return("False"))
                 /\ \A i \in EvIdx(t, "Login") : trace[t][i].out.kind = "return" ) =>
                  /\ Cardinality(EvIdx(t, "Login")) = 1
                  /\ \A i \in EvIdx(t, "Login") :
                       /\ session_id = trace[t][i].sid
                       /\ session_id = keys
                       /\ \A k \in EvIdx(t, "SessionIsActive") : trace[t][k].sid < session_id
                  /\ result[t] = Return("None")

\* A call found the held session inactive and replaced it with one Login.
C24_Witness ==
    \E t \in Threads :
        /\ DirectCreateEnded(t)
        /\ Len(trace[t]) = 6
        /\ trace[t][4] = Event("is_active", Return("False"), 1)
        /\ trace[t][5] = RpcEvent("Login", Return("session"), 2, SessionUserName(2))
        /\ session_id = 2

\* ------------------------------------------------------------- claim C23
\* What logout() may change of the session object and of the server.
LogoutState == <<session_id, session_username, srv, keys, vim_cookie, pbm, pbm_wsdl_loc>>

\* C23: logout() never raises and touches the server only when a session id is
\* held. Called without a session id it returns at once, with no Logout RPC
\* and the state unchanged; called with one it issues one Logout RPC and
\* returns whatever the RPC does: after a Logout that succeeded session_id is
\* None, after a Logout that raised session_id keeps its value.
C23_Logout ==
    [][\A t \in Threads :
         /\ LogoutCall(t) =>
               IF session_id = 0
               THEN /\ pc'[t] = "done"
                    /\ result'[t] = Return("None")
                    /\ EvIdx(t, "Logout")' = {}
                    /\ UNCHANGED LogoutState
               ELSE /\ pc'[t] = "lo_rpc"
                    /\ UNCHANGED LogoutState
         /\ LogoutRpc(t) =>
               /\ pc'[t] = "done"
               /\ result'[t] = Return("None")
               /\ Cardinality(EvIdx(t, "Logout")') = 1
               /\ LET rpc == trace'[t][Len(trace'[t])] IN
                    /\ rpc.ev = "Logout"
                    /\ rpc.out.kind = "return" => session_id' = 0
                    /\ rpc.out.kind = "raise" => session_id' = session_id
         /\ (op'[t] = "logout" /\ pc'[t] = "done") => result'[t] = Return("None")
         /\ (pc'[t] = "lo_rpc" /\ pc[t] # "lo_rpc") => LogoutCall(t)
         /\ (EvIdx(t, "Logout")' # {} /\ trace'[t] # trace[t]) => LogoutRpc(t) ]_vars

\* A logout whose Logout RPC raised has returned and the session id is kept.
C23_Witness ==
    \E t \in Threads :
        /\ op[t] = "logout"
        /\ pc[t] = "done"
        /\ Len(trace[t]) = 2
        /\ trace[t][2].ev = "Logout"
        /\ trace[t][2].out.kind = "raise"
        /\ session_id # 0
        /\ result[t] = Return("None")

\* ------------------------------------------------------------- claim C25
\* The SessionIsActive RPCs that a step of thread t adds to its trace.
NewChecks(t) ==
    IF Len(trace'[t]) > Len(trace[t]) /\ SubSeq(trace'[t], 1, Len(trace[t])) = trace[t]
    THEN {i \in (Len(trace[t]) + 1)..Len(trace'[t]) : trace'[t][i].ev = "SessionIsActive"}
    ELSE {}

\* C25 as stated: once a Login has succeeded, every SessionIsActive RPC
\* carries the key and the user name of the most recent successful Login.
C25_Original ==
    [][\A t \in Threads : \A i \in NewChecks(t) :
         keys # 0 =>
            /\ trace'[t][i].sid = keys
            /\ trace'[t][i].userName = SessionUserName(keys)]_vars

\* C25: every SessionIsActive RPC issued while a session id is held carries
\* the key and the user name that the most recent successful Login returned
\* together, also while another thread refreshes the session or logs out; a
\* check issued while no session id is held (before the first Login, after a
\* logout) carries no session id, with the user name of the most recent
\* successful Login if there was one.
C25_LivenessArguments ==
    [][\A t \in Threads : \A i \in NewChecks(t) :
         /\ trace'[t][i].sid = session_id
         /\ trace'[t][i].userName = session_username
         /\ trace'[t][i].userName = SessionUserName(keys)
         /\ session_id # 0 => trace'[t][i].sid = keys
         /\ \A u \in Threads : \A j \in EvIdx(u, "Login") :
              (trace[u][j].out.kind = "return" /\ trace[u][j].sid = trace'[t][i].sid)
                 => trace[u][j].userName = trace'[t][i].userName ]_vars

\* A liveness check under the lock carries the key and the user name of the
\* Login another thread made, and finds that session active.
C25_Witness ==
    \E t, u \in Threads :
        /\ t # u
        /\ \E j \in EvIdx(u, "Login") :
              /\ trace[u][j].out.kind = "return"
              /\ trace[u][j].sid = 2
        /\ \E i \in EvIdx(t, "SessionIsActive") :
              /\ trace[t][i].sid = 2
              /\ trace[t][i].userName = SessionUserName(2)
              /\ trace[t][i].out = Return("True")

\* ------------------------------------------------------------- claim C26
\* C26: after any interleaving of session creation, session refresh, logout,
\* access of the pbm property and pbm_wsdl_loc_set, whenever a PBM client
\* exists and a session id is held, the SOAP cookie of the PBM client is the
\* HTTP cookie of the VIM client, which is the cookie of the most recent
\* successful Login.
C26_PbmCookie ==
    (pbm # <<>> /\ session_id # 0) =>
        /\ pbm[1] = vim_cookie
        /\ vim_cookie = keys
        /\ session_id = keys

\* A PBM client built under the first session holds the cookie of the second
\* one after a refresh.
C26_Witness ==
    /\ pbm = <<2>>
    /\ session_id = 2
    /\ vim_cookie = 2
    /\ \E t \in Threads : op[t] = "pbm" /\ pc[t] = "done"
    /\ \E t \in Threads :
         /\ pc[t] = "done"
         /\ \E j \in EvIdx(t, "Login") : trace[t][j].sid = 2

\* ------------------------------------------------------------- claim C30
\* An invoke_api call with a bounded retry count.
BoundedInvokeApi(t) ==
    /\ op[t] = "invoke_api"
    /\ api_retry_count >= 0

\* C30 as stated, in the form a finite run refutes: the retry bound N of
\* invoke_api bounds the whole call, the session refreshes it triggers
\* included, so that the call invokes the target at most N + 1 times and
\* issues at most one Login for each of these attempts.
C30_Original ==
    \A t \in Threads :
        BoundedInvokeApi(t) =>
            /\ NumCalls(t) <= api_retry_count + 1
            /\ Cardinality(EvIdx(t, "Login")) <= api_retry_count + 1

C30_Safety ==
    \A t \in Threads :
        BoundedInvokeApi(t) =>
            /\ NumCalls(t) <= api_retry_count + 1
            /\ Cardinality(EvIdx(t, "sleep")) <= api_retry_count
            /\ Cardinality(EvIdx(t, "create_begin")) <= NumCalls(t)
            /\ Cardinality(EvIdx(t, "cs_sleep")) =
                 Cardinality({i \in EvIdx(t, "Login") \cup EvIdx(t, "SessionIsActive") :
                                 /\ trace[t][i].out.kind = "raise"
                                 /\ trace[t][i].out.cls = "VimConnectionException"
                                 /\ \E k \in EvIdx(t, "locked") :
                                      k < i /\ \A j \in (k + 1)..(i - 1) :
                                                  trace[t][j].ev # "create_end"})

\* C30: an invoke_api call with a bounded api_retry_count N >= 0 invokes the
\* target at most N + 1 times, sleeps at most N times between these attempts
\* and starts at most one session refresh per attempt; the refresh is not
\* bounded by N: it sleeps and runs again after every RPC of its locked body
\* that raises VimConnectionException. The call eventually returns or raises
\* provided each RPC terminates and these failures are finitely many.
C30_BoundedCall ==
    /\ []C30_Safety
    /\ \A t \in Threads :
         (BoundedInvokeApi(t) /\ pc[t] # "done") ~> (pc[t] = "done")

\* A call with api_retry_count 0 has ended after a refresh that issued two
\* Logins.
C30_Witness ==
    \E t \in Threads :
        /\ BoundedInvokeApi(t)
        /\ api_retry_count = 0
        /\ pc[t] = "done"
        /\ NumCalls(t) = 1
        /\ Cardinality(EvIdx(t, "Login")) = 2

\* ------------------------------------------------------------- claim C31
\* No caller is inside logout() or inside a session refresh.
NoSessionOpInFlight ==
    \A t \in Threads : pc[t] \in {"idle", "done"}

\* C31: logout() never overwrites a session id stored by a Login that
\* completed after the Logout request was sent: once logout and refresh have
\* both finished, the session of the most recent Login, if it is live on the
\* server, is still recorded in session_id.
C31_NoUntrackedSession ==
    (NoSessionOpInFlight /\ keys # 0 /\ keys \in srv) => session_id = keys

\* ------------------------------------------------------------- claim C32
\* The session refreshes of the invoke_api call of t that ended with an error
\* the decorator of invoke_api does not retry.
FailedRefreshes(t) ==
    {i \in EvIdx(t, "create_end") :
        /\ trace[t][i].out.kind = "raise"
        /\ ~IsInstance(trace[t][i].out.cls, "VimSessionOverLoadException")
        /\ ~IsInstance(trace[t][i].out.cls, "VimConnectionException")}

\* C32: when the session refresh triggered inside invoke_api fails with an
\* error that is not retryable, the call ends there: the target is not
\* invoked again, and the caller gets the error of the refresh, not the
\* fault or connection error that triggered the refresh.
C32_RefreshErrorPropagates ==
    \A t \in Threads :
        op[t] = "invoke_api" =>
            \A i \in FailedRefreshes(t) :
                /\ pc[t] = "done"
                /\ i = Len(trace[t])
                /\ result[t] = trace[t][i].out
                /\ \A j \in EvIdx(t, "call") : j < i
                /\ \A j \in EvIdx(t, "sleep") : j < i
                /\ saved[t].kind = "raise"

\* A NotAuthenticated fault led to a refresh whose Login was rejected with a
\* fault; the caller got the fault of the Login.
C32_Witness ==
    \E t \in Threads :
        /\ op[t] = "invoke_api"
        /\ pc[t] = "done"
        /\ FailedRefreshes(t) # {}
        /\ SessionFault(saved[t])
        /\ \E j \in EvIdx(t, "Login") :
             /\ trace[t][j].out = result[t]
             /\ result[t].cls = "VimFaultException"
             /\ result[t] # saved[t]

\* ------------------------------------------------------------- claim C33
\* While a caller sleeps between two attempts of _create_session it does not
\* hold the lock, and when no one holds it a caller waiting for the lock can
\* take it.
C33_Inv ==
    \A t \in Threads :
        pc[t] = "cs_sleep" =>
            /\ lock # t
            /\ lock = 0 => \A u \in Threads : pc[u] = "cs_lock" => ENABLED AcquireLock(u)

\* C33: the session-creation lock is released before the retry engine sleeps
\* between two login attempts: the step that sends a caller to the retry sleep
\* of _create_session frees the lock, the caller does not hold it while it
\* sleeps, and another caller can acquire it meanwhile and attempt its own
\* login.
C33_LockFreeWhileRetrySleeps ==
    /\ []C33_Inv
    /\ [][\A t \in Threads :
            (pc[t] # "cs_sleep" /\ pc'[t] = "cs_sleep") =>
                /\ lock = t
                /\ lock' = 0
                /\ LET last == trace'[t][Len(trace'[t]) - 1] IN
                     /\ last.out.kind = "raise"
                     /\ last.out.cls = "VimConnectionException"]_vars

\* While one caller sleeps after a Login that failed with a connection error,
\* another caller has taken the lock and logged in.
C33_Witness ==
    \E t, u \in Threads :
        /\ t # u
        /\ pc[t] = "cs_sleep"
        /\ \E i \in EvIdx(t, "Login") : trace[t][i].out.cls = "VimConnectionException"
        /\ session_id = keys
        /\ \E j \in EvIdx(u, "Login") :
             /\ trace[u][j].out.kind = "return"
             /\ trace[u][j].sid = keys

\* ------------------------------------------------------------- claim C34
\* NotAuthenticated is at some position of the fault list.
HasNotAuthenticated(fault_list) ==
    \E i \in 1..Len(fault_list) : fault_list[i] = NOT_AUTHENTICATED

\* C34: invoke_api takes a fault for a sign of session expiry, and goes to the
\* liveness check, whenever NotAuthenticated is at any position of the fault
\* list, also behind another fault name; for every other fault list the first
\* fault name alone decides the class of the exception that is raised: the
\* class registered for it, or VimFaultException when it is not registered or
\* the list is empty.
C34_SessionFaultAnyPosition ==
    /\ fcall.op \in {"invoke_api", "invoke_api_session"} =>
         (HasNotAuthenticated(fcall.exc.fault_list) <=> fcall.op = "invoke_api_session")
    /\ fcall.op = "invoke_api_session" =>
         /\ fcall.ret = "is_current_session_active"
         /\ fcall.raised = NoExc
    /\ fcall.op = "invoke_api" =>
         fcall.raised.cls =
            IF fcall.exc.fault_list # <<>> /\ fcall.exc.fault_list[1] \in DOMAIN fcall.before
            THEN fcall.before[fcall.exc.fault_list[1]]
            ELSE "VimFaultException"

\* A fault list with NotAuthenticated behind a registered fault name was taken
\* for a session fault.
C34_Witness ==
    /\ fcall.op = "invoke_api_session"
    /\ fcall.exc.fault_list = <<"FileNotFound", NOT_AUTHENTICATED>>
    /\ fcall.ret = "is_current_session_active"

LeaseCalls == SelectSeq(handle.calls, LAMBDA c : c # "state")

C37_ConnectionAlwaysClosed ==
    (/\ handle.pc = "closed"
     /\ \/ handle.release.kind = "return"
        \/ IsInstance(handle.release.cls, "VimException"))
        => handle.conn_closed

\* ------------------------------------------------------------- claim C38
\* C38: _start_transfer cancels the timeout timer, stops both progress
\* updaters and closes both the read handle and the write handle on every
\* exit path (normal end of data, read or write error, timeout, or an error
\* raised while closing the other handle), and every failure of the copy loop
\* reaches the caller as ImageTransferException.
C38_CleanupOnEveryPath ==
    transfer.pc = "done" =>
        /\ transfer.timer = "cancelled"
        /\ transfer.read_updater # "running"
        /\ transfer.write_updater # "running"
        /\ transfer.read_closed
        /\ transfer.write_closed
        /\ transfer.loop.kind = "raise" => transfer.result.cls = "ImageTransferException"

\* ------------------------------------------------------------- claim C39
RECURSIVE Flatten(_)
Flatten(pages) == IF pages = <<>> THEN <<>> ELSE Head(pages) \o Flatten(Tail(pages))

IsPrefix(s, t) == Len(s) <= Len(t) /\ SubSeq(t, 1, Len(s)) = s

\* The objects of the pages up to and including the one with this token
\* (the last page has token 0).
ObjectsThrough(pages, res) ==
    Len(Flatten(SubSeq(pages, 1, IF res.token = 0 THEN Len(pages) ELSE res.token)))

CallsOf(name) == SelectSeq(retrieval.calls, LAMBDA c : c.op = name)

\* C39: iterating a WithRetrieval context yields the objects of every result
\* page in server order; the next page is requested only after the held page
\* has been consumed; the iteration stops when no further page is returned;
\* on leaving the context cancel_retrieval is called if and only if a result
\* page is still held (the server's cancel method being invoked when that
\* page carries a token), and nothing is cancelled after a complete
\* iteration.
C39_WithRetrieval ==
    /\ IsPrefix(retrieval.yielded, Flatten(retrieval.pages))
    /\ retrieval.gen = "finished" =>
          /\ retrieval.yielded = Flatten(retrieval.pages)
          /\ ~retrieval.retrieve_result.held
          /\ CallsOf("cancel_retrieval") = <<>>
          /\ CallsOf("CancelRetrievePropertiesEx") = <<>>
    /\ \A i \in 1..Len(retrieval.calls) :
          LET c == retrieval.calls[i]
          IN /\ c.op \in {"continue_retrieval", "ContinueRetrievePropertiesEx"} =>
                   /\ c.held.held
                   /\ c.yielded = ObjectsThrough(retrieval.pages, c.held)
             /\ c.op = "ContinueRetrievePropertiesEx" => c.held.token # 0
             /\ (c.op = "continue_retrieval" /\ c.held.token = 0) =>
                   /\ i = Len(retrieval.calls)
                   /\ ~retrieval.retrieve_result.held
    /\ retrieval.pc = "exited" =>
          /\ Len(CallsOf("cancel_retrieval")) =
                (IF retrieval.retrieve_result.held THEN 1 ELSE 0)
          /\ Len(CallsOf("CancelRetrievePropertiesEx")) =
                (IF retrieval.retrieve_result.token # 0 THEN 1 ELSE 0)
          /\ \A i \in 1..Len(retrieval.calls) :
                retrieval.calls[i].op \in {"cancel_retrieval", "CancelRetrievePropertiesEx"} =>
                    retrieval.calls[i].held = retrieval.retrieve_result

\* The context was left after the first page had been consumed and the
\* second fetched, with pages left on the server: the retrieval is cancelled.
C39_Witness ==
    /\ retrieval.pc = "exited"
    /\ retrieval.gen = "suspended"
    /\ Len(CallsOf("ContinueRetrievePropertiesEx")) = 1
    /\ Len(CallsOf("CancelRetrievePropertiesEx")) = 1
    /\ retrieval.yielded # <<>>

\* A complete iteration over several pages, left without a cancel.
C39_WitnessComplete ==
    /\ retrieval.pc = "exited"
    /\ retrieval.gen = "finished"
    /\ Len(retrieval.pages) = MaxPages
    /\ Len(retrieval.yielded) > MaxPageSize

====
